---- MODULE Spec2Model ----
(***************************************************************************)
(* Verification model of the 1G1R ROM set generator (src/generate.py,      *)
(* src/modules/utils.py).                                                  *)
(*                                                                         *)
(* The module holds several specifications over one set of variables:      *)
(*   Spec         the concurrent hash indexer (index_files, process_file)  *)
(*   SpecPad      add_padding applied to a sibling set of dotted strings   *)
(*   SpecRank     pad_values + set_scores + sort of one bucket             *)
(*   SpecResolve  the candidate resolver loop of main                      *)
(* Each specification leaves the variables of the others untouched.        *)
(***************************************************************************)
EXTENDS Integers, Sequences, FiniteSets, TLC

VARIABLES
    \* ---- hash indexer -------------------------------------------------
    fs,                    \* the input directory: path -> file on disk
    also_check_archive,    \* some catalog ROM name ends in .zip
    files_data,            \* shared work queue (list popped from the front)
    intermediate_results,  \* shared list of per-file partial maps
    result,                \* the digest index: required digest -> path or None
    wpc,                   \* position of each worker thread
    wfile,                 \* the file each worker has popped
    ipc,                   \* position of index_files itself
    merged,                \* number of partial maps already merged
    read_errors,           \* the paths process_file reported a read error for
    \* ---- add_padding --------------------------------------------------
    strings,               \* the argument of add_padding
    padded,                \* its return value
    ppc,                   \* "input" before the call, "padded" after it
    \* ---- ranking of one bucket ----------------------------------------
    games,                 \* parsed_games[key]: the variants of one bucket
    cfg,                   \* the selection configuration
    rpc,                   \* "parsed", "ranked", "reranked"
    \* ---- candidate resolver -------------------------------------------
    opts,                  \* use_hashes, input_dir, output_dir, move, all_regions
    hash_index,            \* the digest index that index_files returned
    on_disk,               \* the indexed paths that still exist in the input directory
    game_no,               \* number of buckets the outer loop has entered
    size,                  \* len(entries) after the inclusion filter
    cand,                  \* i, the index of the current candidate
    entry,                 \* the current candidate
    rom_size,              \* the size noted for the report
    printed_items,         \* the manifest
    printed_sizes,         \* the sizes that go with it
    transfers,             \* the calls of transfer_file: source and outcome
    no_eligible,           \* buckets for which "No eligible candidates" was logged
    summary,               \* the final file count and uncompressed total
    walked,                \* what became of the candidates of the current bucket so far
    spc,                   \* "next", "walk", "crashed", "done"
    drawn,                 \* variants of the buckets read so far
    \* ---- catalog parser ------------------------------------------------
    catalog,               \* root.game, the games of the DAT file
    no_options,            \* the --no-* options of the command line
    exclude,               \* whether an exclude list was given
    input_index,           \* number of catalog games parse_games has handled
    parsed_games,          \* the dict parse_games builds: parent name -> entries
    parse_log,             \* the <<game, message>> pairs parse_games logged
    gpc,                   \* "parsing", "parsed"
    \* ---- command line --------------------------------------------------
    argv,                  \* the options the loop of main has not read yet
    conf,                  \* the option variables of main
    made_dirs,             \* whether the output directory was created
    fetched,               \* the options whose url: argument was downloaded
    dat,                   \* the DAT file: has_cloneof, lacks_sha1
    work_started,          \* whether validate_dat has opened the DAT file
    indexed,               \* whether index_files has hashed the input directory
    exit_status,           \* the status the process exited with, -1 while it runs
    cpc                    \* "options", "checks", "gate", "index", "resolve", "exited", "aborted"

ixvars == <<fs, also_check_archive, files_data, intermediate_results,
            result, wpc, wfile, ipc, merged, read_errors>>

padvars == <<strings, padded, ppc>>

rankvars == <<games, cfg, rpc>>

resvars == <<opts, hash_index, on_disk, game_no, size, cand, entry, rom_size,
             printed_items, printed_sizes, transfers, no_eligible, summary,
             walked, spc, drawn>>

parsevars == <<catalog, no_options, exclude, input_index, parsed_games,
               parse_log, gpc>>

confvars == <<argv, conf, made_dirs, fetched, dat, work_started, indexed,
              exit_status, cpc>>

\* The candidate filter and walk of main over one ranked bucket (with the
\* variables of the ranking loop).
VARIABLES
    modes,                 \* all_regions, all_regions_with_lang, only_selected_lang
    explicit,              \* name -> the languages written in the name
    located,               \* the names whose files can be located
    filtered,              \* entries: the bucket after the inclusion filter
    chosen                 \* the name the walk stopped at, or 0

selvars == <<modes, explicit, located, filtered, chosen>>

\* One call of compute_hash.
VARIABLES
    hash_in,               \* bytes, RULES, MAX_FILE_SIZE, CHUNK_SIZE
    hexdigest,             \* the return value
    hpc                    \* "input" before the call, "hashed" after it

hvars == <<hash_in, hexdigest, hpc>>

\* The region table under get_region_data.
VARIABLES
    region_table,          \* COUNTRY_REGION_CORRELATION
    region_log,            \* the codes logged as unrecognized, in order
    region_calls           \* the calls so far: the code given, the entry returned

regvars == <<region_table, region_log, region_calls>>

vars == <<ixvars, padvars, rankvars, resvars, parsevars, confvars, selvars,
          hvars, regvars>>

\* The variables a specification does not use keep these values.
IdleIndex ==
    /\ fs = <<>>
    /\ also_check_archive = FALSE
    /\ files_data = <<>>
    /\ intermediate_results = <<>>
    /\ result = <<>>
    /\ wpc = <<>>
    /\ wfile = <<>>
    /\ ipc = "off"
    /\ merged = 0
    /\ read_errors = {}

IdlePad ==
    /\ strings = <<>>
    /\ padded = <<>>
    /\ ppc = "off"

IdleRank ==
    /\ games = <<>>
    /\ cfg = <<>>
    /\ rpc = "off"

IdleResolve ==
    /\ opts = <<>>
    /\ hash_index = <<>>
    /\ on_disk = {}
    /\ game_no = 0
    /\ size = 0
    /\ cand = 0
    /\ entry = <<>>
    /\ rom_size = 0
    /\ printed_items = <<>>
    /\ printed_sizes = <<>>
    /\ transfers = <<>>
    /\ no_eligible = {}
    /\ summary = <<>>
    /\ walked = <<>>
    /\ spc = "off"
    /\ drawn = 0

IdleParse ==
    /\ catalog = <<>>
    /\ no_options = {}
    /\ exclude = FALSE
    /\ input_index = 0
    /\ parsed_games = <<>>
    /\ parse_log = {}
    /\ gpc = "off"

IdleConf ==
    /\ argv = <<>>
    /\ conf = <<>>
    /\ made_dirs = FALSE
    /\ fetched = {}
    /\ dat = <<>>
    /\ work_started = FALSE
    /\ indexed = FALSE
    /\ exit_status = -1
    /\ cpc = "off"

IdleSelect ==
    /\ modes = <<>>
    /\ explicit = <<>>
    /\ located = {}
    /\ filtered = <<>>
    /\ chosen = 0

IdleHash ==
    /\ hash_in = <<>>
    /\ hexdigest = <<>>
    /\ hpc = "off"

IdleRegion ==
    /\ region_table = <<>>
    /\ region_log = <<>>
    /\ region_calls = <<>>

notRegion == <<ixvars, padvars, rankvars, resvars, parsevars,
            confvars, selvars, hvars>>

notIndex == <<padvars, rankvars, resvars, parsevars, confvars, selvars,
               hvars,
               regvars>>

notPad == <<ixvars, rankvars, resvars, parsevars, confvars, selvars,
               hvars,
               regvars>>

notRank == <<ixvars, padvars, resvars, parsevars, confvars, selvars,
               hvars,
               regvars>>

notResolve == <<ixvars, padvars, rankvars, parsevars, confvars, selvars,
               hvars,
               regvars>>

notParse == <<ixvars, padvars, rankvars, resvars, confvars, selvars,
               hvars,
               regvars>>

notSelect == <<ixvars, padvars, resvars, parsevars, confvars, hvars,
               regvars>>

notHash == <<ixvars, padvars, rankvars, resvars, parsevars, confvars, selvars,
               regvars>>

notConf == <<ixvars, padvars, rankvars, resvars, parsevars, selvars,
               hvars,
               regvars>>

----------------------------------------------------------------------------
(* Bounds and constants                                                    *)

\* Largest number of regular files found under the input directory.
MaxFiles == 2

\* Largest number of members of one ZIP archive.
MaxMembers == 2

\* Largest number of worker threads (THREADS, set with --threads; the
\* configuration check rejects THREADS <= 0).
MaxThreads == 2

\* Python's None; paths are positive integers.
None == 0

\* SHA-1 digests that occur in the model.
Digests == {"a", "b"}

\* The sets of digests a catalog can require (keys of the index).
RequiredSets == {{"a"}, {"a", "b"}}

\* The worker threads started by index_files: range(0, THREADS).
Threads == DOMAIN wpc

----------------------------------------------------------------------------
(* Generic helpers                                                         *)

\* All sequences over S of length at most n.
SeqsUpTo(S, n) == UNION {[1..k -> S] : k \in 0..n}

Range(s) == {s[i] : i \in DOMAIN s}

\* The empty dict.
EmptyMap == [d \in {} |-> None]

\* dict[key] = value
Put(m, key, value) == [d \in (DOMAIN m) \cup {key} |-> IF d = key THEN value ELSE m[d]]

\* All orderings of the elements of a sequence (as sequences).
Perms(s) ==
    {[i \in DOMAIN s |-> s[f[i]]] :
        f \in {g \in [DOMAIN s -> DOMAIN s] : \A i, j \in DOMAIN s : i # j => g[i] # g[j]}}

----------------------------------------------------------------------------
(* Hash indexer: index_files / process_thread_with_progress / process_file *)

\* A file on disk: whether zipfile.is_zipfile holds, the digests of its
\* non-directory members, and the digest of its own raw bytes.
FileKinds ==
    {[is_zip |-> FALSE, members |-> <<>>, raw |-> r] : r \in Digests}
    \cup
    {[is_zip |-> TRUE, members |-> m, raw |-> r] :
        m \in SeqsUpTo(Digests, MaxMembers), r \in Digests}

\* Largest number of deviations from the run of one worker over an empty
\* input directory: each file, each further worker, a file that is an
\* archive, each archive member, a raw digest "b".
MaxFileDeviations == 4

file_deviations(f) ==
    (IF f.is_zip THEN 1 ELSE 0) + Len(f.members) + (IF f.raw = "b" THEN 1 ELSE 0)

\* The input directories of n files with at most 'budget' deviations.
RECURSIVE FileLists(_, _)
FileLists(n, budget) ==
    IF n = 0 THEN {<<>>}
    ELSE UNION {{<<f>> \o rest : rest \in FileLists(n - 1, budget - file_deviations(f))} :
                f \in {x \in FileKinds : file_deviations(x) <= budget}}

\* zipfile.is_zipfile(path)
is_zipfile(path) == fs[path].is_zip

\* A slip: the raw bytes of an archive are hashed whatever the catalog names.
process_file_raw(path, zok, rok) ==
    LET f == fs[path]
        zipped == IF f.is_zip
                  THEN [d \in {f.members[k] : k \in 1..zok} |-> path]
                  ELSE EmptyMap
    IN  IF rok THEN Put(zipped, f.raw, path) ELSE zipped

\* process_file: zok is the number of archive members read before an
\* exception ends the archive loop (all of them when no error occurs), rok
\* tells whether reading the raw bytes succeeds.
process_file(path, zok, rok) ==
    LET f == fs[path]
        zipped == IF f.is_zip
                  THEN [d \in {f.members[k] : k \in 1..zok} |-> path]
                  ELSE EmptyMap
        digest == f.raw
    IN  IF (~f.is_zip \/ also_check_archive) /\ rok
        THEN IF digest \notin DOMAIN zipped
                \/ (zipped[digest] # None /\ is_zipfile(zipped[digest]))
             THEN Put(zipped, digest, path)
             ELSE zipped
        ELSE zipped

\* Whether process_file caught an exception: the archive loop ended early,
\* or the read of the raw bytes, when it is attempted, failed.
read_error(path, zok, rok) ==
    LET f == fs[path]
    IN  \/ f.is_zip /\ zok < Len(f.members)
        \/ (~f.is_zip \/ also_check_archive) /\ ~rok

\* One (key, value) pair of the merge loop: the guarded assignment of line
\* 934 is followed by the unguarded assignment of line 937.
MergeItem(cur, value) ==
    LET guarded == IF ~(cur # None /\ is_zipfile(cur)) THEN value ELSE cur
        final == value
    IN  IF guarded = final THEN guarded ELSE final

\* The merge of one partial map into the index (keys not in the index are
\* ignored).
MergeOne(res, partial) ==
    [k \in DOMAIN res |->
        IF k \in DOMAIN partial THEN MergeItem(res[k], partial[k]) ELSE res[k]]

RECURSIVE MergeAll(_, _)
MergeAll(res, partials) ==
    IF partials = <<>> THEN res
    ELSE MergeAll(MergeOne(res, Head(partials)), Tail(partials))

InitIndex ==
    /\ \E n \in 0..MaxFiles : \E k \in 1..MaxThreads :
          /\ n + (k - 1) <= MaxFileDeviations
          /\ fs \in FileLists(n, MaxFileDeviations - n - (k - 1))
          /\ wpc = [t \in 1..k |-> "idle"]
          /\ wfile = [t \in 1..k |-> None]
    /\ also_check_archive \in BOOLEAN
    /\ files_data = [i \in DOMAIN fs |-> i]
    /\ intermediate_results = <<>>
    /\ \E req \in RequiredSets : result = [d \in req |-> None]
    /\ ipc = "scan"
    /\ merged = 0
    /\ read_errors = {}
    /\ IdlePad
    /\ IdleRank
    /\ IdleResolve
    /\ IdleParse
    /\ IdleConf
    /\ IdleSelect
    /\ IdleHash
    /\ IdleRegion
\* `if files_data:` with files: create and start the worker threads.
StartThreads ==
    /\ ipc = "scan"
    /\ files_data # <<>>
    /\ ipc' = "join"
    /\ wpc' = [t \in Threads |-> "loop"]
    /\ UNCHANGED <<fs, also_check_archive, files_data, intermediate_results,
                   result, wfile, merged>>
    /\ UNCHANGED read_errors
    /\ UNCHANGED notIndex

\* `if files_data:` without files: the index is returned as initialised.
NoFiles ==
    /\ ipc = "scan"
    /\ files_data = <<>>
    /\ ipc' = "done"
    /\ UNCHANGED <<fs, also_check_archive, files_data, intermediate_results,
                   result, wpc, wfile, merged>>
    /\ UNCHANGED read_errors
    /\ UNCHANGED notIndex

\* A slip: taking a file drops the one queued behind it as well.
PopSkip(t) ==
    /\ wpc[t] = "loop"
    /\ files_data # <<>>
    /\ wfile' = [wfile EXCEPT ![t] = Head(files_data)]
    /\ files_data' = IF Len(files_data) >= 2 THEN Tail(Tail(files_data))
                     ELSE Tail(files_data)
    /\ wpc' = [wpc EXCEPT ![t] = "hash"]
    /\ UNCHANGED <<fs, also_check_archive, intermediate_results, result, ipc, merged>>
    /\ UNCHANGED read_errors
    /\ UNCHANGED notIndex

\* shared_files_data.pop(0)
PopFile(t) ==
    /\ wpc[t] = "loop"
    /\ files_data # <<>>
    /\ wfile' = [wfile EXCEPT ![t] = Head(files_data)]
    /\ files_data' = Tail(files_data)
    /\ wpc' = [wpc EXCEPT ![t] = "hash"]
    /\ UNCHANGED <<fs, also_check_archive, intermediate_results, result, ipc, merged>>
    /\ UNCHANGED read_errors
    /\ UNCHANGED notIndex

\* shared_result_data.append(process_file(next_file, also_check_archive))
ProcessFile(t) ==
    /\ wpc[t] = "hash"
    /\ \E zok \in 0..Len(fs[wfile[t]].members), rok \in BOOLEAN :
          /\ intermediate_results' =
                Append(intermediate_results, process_file(wfile[t], zok, rok))
          /\ read_errors' =
                IF read_error(wfile[t], zok, rok)
                THEN read_errors \cup {wfile[t]}
                ELSE read_errors
    /\ wfile' = [wfile EXCEPT ![t] = None]
    /\ wpc' = [wpc EXCEPT ![t] = "loop"]
    /\ UNCHANGED <<fs, also_check_archive, files_data, result, ipc, merged>>
    /\ UNCHANGED notIndex

\* A slip: the worker swallows the IndexError and polls the queue again.
WorkerSpin(t) ==
    /\ wpc[t] = "loop"
    /\ files_data = <<>>
    /\ UNCHANGED vars

\* pop(0) raises IndexError: the worker leaves its loop.
WorkerDone(t) ==
    /\ wpc[t] = "loop"
    /\ files_data = <<>>
    /\ wpc' = [wpc EXCEPT ![t] = "done"]
    /\ UNCHANGED <<fs, also_check_archive, files_data, intermediate_results,
                   result, wfile, ipc, merged>>
    /\ UNCHANGED read_errors
    /\ UNCHANGED notIndex

\* A slip: the merge phase starts without waiting for the workers.
JoinEarly ==
    /\ ipc = "join"
    /\ ipc' = "merge"
    /\ UNCHANGED <<fs, also_check_archive, files_data, intermediate_results,
                   result, wpc, wfile, merged>>
    /\ UNCHANGED read_errors
    /\ UNCHANGED notIndex

\* `for t in threads: t.join()` returns once every worker has finished.
JoinThreads ==
    /\ ipc = "join"
    /\ \A t \in Threads : wpc[t] = "done"
    /\ ipc' = "merge"
    /\ UNCHANGED <<fs, also_check_archive, files_data, intermediate_results,
                   result, wpc, wfile, merged>>
    /\ UNCHANGED read_errors
    /\ UNCHANGED notIndex

\* One iteration of `for intermediate_result in intermediate_results`.
MergeStep ==
    /\ ipc = "merge"
    /\ merged < Len(intermediate_results)
    /\ result' = MergeOne(result, intermediate_results[merged + 1])
    /\ merged' = merged + 1
    /\ UNCHANGED <<fs, also_check_archive, files_data, intermediate_results,
                   wpc, wfile, ipc>>
    /\ UNCHANGED read_errors
    /\ UNCHANGED notIndex

\* The merge loop is exhausted: `return result`.
ReturnIndex ==
    /\ ipc = "merge"
    /\ merged = Len(intermediate_results)
    /\ ipc' = "done"
    /\ UNCHANGED <<fs, also_check_archive, files_data, intermediate_results,
                   result, wpc, wfile, merged>>
    /\ UNCHANGED read_errors
    /\ UNCHANGED notIndex

NextIndex ==
    \/ StartThreads
    \/ NoFiles
    \/ \E t \in Threads : PopFile(t)
    \/ \E t \in Threads : ProcessFile(t)
    \/ \E t \in Threads : WorkerDone(t)
    \/ JoinThreads
    \/ MergeStep
    \/ ReturnIndex

Spec == InitIndex /\ [][NextIndex]_vars

\* The steps of worker thread t.
Worker(t) ==
    /\ t \in Threads
    /\ PopFile(t) \/ ProcessFile(t) \/ WorkerDone(t)

\* The steps of the thread that runs index_files.
Indexer ==
    StartThreads \/ NoFiles \/ JoinThreads \/ MergeStep \/ ReturnIndex

\* Fair scheduling: a thread that can take a step eventually takes one.
SpecFair ==
    /\ Spec
    /\ WF_vars(Indexer)
    /\ \A t \in 1..MaxThreads : WF_vars(Worker(t))

----------------------------------------------------------------------------
(* Claims about the hash indexer                                           *)

\* The partial maps in which digest d was recorded against a path.
Producers(d) ==
    {intermediate_results[i][d] :
        i \in {j \in DOMAIN intermediate_results : d \in DOMAIN intermediate_results[j]}}

\* C1: in the final digest index, a required digest produced both by a
\* plain file and by a member of a ZIP archive is mapped to the plain
\* file's path, whatever the order in which the partial maps were merged.
C1_PlainSupersedesArchive ==
    ipc = "done" =>
        \A d \in DOMAIN result :
            ( /\ \E p \in Producers(d) : ~is_zipfile(p)
              /\ \E z \in Producers(d) : is_zipfile(z) /\ d \in Range(fs[z].members) )
            => (result[d] # None /\ ~is_zipfile(result[d]))

\* C2: the final digest index does not depend on the order in which the
\* workers delivered their partial maps: merging them in any other order
\* gives the same index.
C2_MergeOrderIndependent ==
    ipc = "done" =>
        \A p \in Perms(intermediate_results) :
            MergeAll([d \in DOMAIN result |-> None], p) = result

\* C17: a read error while hashing a file does not stop the worker or the
\* run: the failed file adds no mapping, every other enumerated file is
\* hashed and its partial map delivered, and index_files returns.
C17_FailedFileIsSkipped ==
    /\ \A j \in DOMAIN intermediate_results :
          \A d \in DOMAIN intermediate_results[j] :
             intermediate_results[j][d] \notin read_errors
    /\ ipc = "done" =>
          /\ Len(intermediate_results) = Len(fs)
          /\ \A p \in (DOMAIN fs) \ read_errors :
                \E j \in DOMAIN intermediate_results :
                   intermediate_results[j] =
                       process_file(p, Len(fs[p].members), TRUE)

\* C22: every member of a ZIP archive has its digest recorded against the
\* container's path; the container's raw bytes are hashed only when a
\* catalog ROM name ends in .zip; a file that is no archive is always
\* hashed as raw bytes; a required digest that a file or member produced
\* is located through the index at a path that produced it (files read
\* without error).
C22_ArchiveMembersAndRawBytes ==
    ipc = "done" =>
        /\ \A p \in (DOMAIN fs) \ read_errors :
              \E j \in DOMAIN intermediate_results :
                 LET m == intermediate_results[j]
                 IN  /\ DOMAIN m =
                           Range(fs[p].members)
                           \cup (IF ~fs[p].is_zip \/ also_check_archive
                                 THEN {fs[p].raw} ELSE {})
                     /\ \A d \in DOMAIN m : m[d] = p
        /\ \A d \in DOMAIN result :
              Producers(d) # {} => result[d] \in Producers(d)

\* An archive was indexed by its member only, and the member's digest is
\* located at the container.
C22_Witness ==
    /\ ipc = "done"
    /\ ~also_check_archive
    /\ read_errors = {}
    /\ \E z \in DOMAIN fs :
          /\ fs[z].is_zip
          /\ fs[z].members = <<"a">>
          /\ fs[z].raw = "b"
          /\ result["a"] = z
          /\ "b" \in DOMAIN result /\ result["b"] = None

\* The files the workers hold.
InHand == {wfile[t] : t \in {u \in Threads : wfile[u] # None}}

\* C26: every enumerated file is taken from the shared queue and processed
\* by exactly one worker: a file is queued, in one worker's hands, or has
\* one partial result, never two of these, and after the join there are as
\* many partial results as enumerated files.
C26_EachFileProcessedOnce ==
    ipc # "off" =>
        /\ \A j, k \in DOMAIN files_data : j # k => files_data[j] # files_data[k]
        /\ \A t, u \in Threads : (t # u /\ wfile[t] # None) => wfile[t] # wfile[u]
        /\ Range(files_data) \cap InHand = {}
        /\ Len(files_data) + Cardinality(InHand) + Len(intermediate_results)
              = Len(fs)
        /\ \A j \in DOMAIN intermediate_results :
              /\ Range(intermediate_results[j]) \cap (Range(files_data) \cup InHand) = {}
              /\ \A k \in DOMAIN intermediate_results :
                    j # k => Range(intermediate_results[j])
                                \cap Range(intermediate_results[k]) = {}
        /\ ipc \in {"merge", "done"} => Len(intermediate_results) = Len(fs)

\* Two workers shared two files and the join found two partial results.
C26_Witness ==
    /\ ipc = "merge"
    /\ Cardinality(Threads) >= 2
    /\ Len(fs) = 2
    /\ Len(intermediate_results) = 2
    /\ \A j \in DOMAIN intermediate_results : intermediate_results[j] # EmptyMap

\* C27: under fair scheduling every worker that was started eventually
\* finds the queue empty and finishes, so the join completes and the merge
\* phase and the return of the index are reached.
C27_IndexingTerminates ==
    /\ (ipc = "join") ~> (\A t \in Threads : wpc[t] = "done")
    /\ (ipc = "join") ~> (ipc = "merge")
    /\ <>(ipc = "done")

\* More files than workers were hashed and the index was returned.
C27_Witness ==
    /\ ipc = "done"
    /\ Len(fs) > Cardinality(Threads)
    /\ \A t \in Threads : wpc[t] = "done"

\* C21: no path is written into the digest index before every worker has
\* finished: while the workers run the index holds only absence markers
\* (so an interrupt then leaves no partial result in it), and it changes
\* only in the merge phase that follows the join of all workers.
C21_IndexWrittenOnlyInMerge ==
    /\ [](ipc \in {"scan", "join"} => \A d \in DOMAIN result : result[d] = None)
    /\ [][result' # result =>
             /\ ipc = "merge"
             /\ \A t \in Threads : wpc[t] = "done" /\ wfile[t] = None]_vars

\* The merge phase wrote a path into the index after several files were hashed.
C21_Witness ==
    /\ ipc = "merge"
    /\ Len(intermediate_results) >= 2
    /\ \E d \in DOMAIN result : result[d] # None

----------------------------------------------------------------------------
(* Strings and Python orderings (src/modules/utils.py)                     *)

\* A string is the sequence of the code points of its characters (ord).
DOT == 46

ZERO == 48

\* Python's comparison of two lists of integers (also of two strings, and of
\* two tuples of integers): -1, 0 or 1. The first differing element decides;
\* a proper prefix is smaller.
RECURSIVE ListCmp(_, _)
ListCmp(a, b) ==
    IF a = <<>> /\ b = <<>> THEN 0
    ELSE IF a = <<>> THEN -1
    ELSE IF b = <<>> THEN 1
    ELSE IF Head(a) < Head(b) THEN -1
    ELSE IF Head(a) > Head(b) THEN 1
    ELSE ListCmp(Tail(a), Tail(b))

\* str.split('.'): scan from position i with the current part cur and the
\* finished parts acc.
RECURSIVE SplitFrom(_, _, _, _)
SplitFrom(s, i, cur, acc) ==
    IF i > Len(s) THEN Append(acc, cur)
    ELSE IF s[i] = DOT THEN SplitFrom(s, i + 1, <<>>, Append(acc, cur))
    ELSE SplitFrom(s, i + 1, Append(cur, s[i]), acc)

Split(s) == SplitFrom(s, 1, <<>>, <<>>)

\* '.'.join(parts)
RECURSIVE Join(_)
Join(parts) ==
    IF Len(parts) = 0 THEN <<>>
    ELSE IF Len(parts) = 1 THEN parts[1]
    ELSE parts[1] \o <<DOT>> \o Join(Tail(parts))

\* A list comprehension builds its list once: the elements are computed
\* when the list is made, not when they are read.
List(s) == s \o <<>>

\* utils.get: ls[index] (0-based index), or 0 when the index is out of range.
get(ls, index) == IF index < Len(ls) THEN ls[index + 1] ELSE 0

\* max of a non-empty collection of naturals
Max(S) == CHOOSE x \in S : \A y \in S : y <= x

\* '0' * n
Zeros(n) == [i \in 1..n |-> ZERO]

\* A plausible slip in add_padding: the zeros are appended instead of
\* prepended.
add_padding_right(strs) ==
    LET parts_list == [i \in DOMAIN strs |-> Split(strs[i])]
        max_parts == Max({Len(parts_list[i]) : i \in DOMAIN strs})
        max_lengths == [p \in 1..max_parts |->
                           Max({IF p <= Len(parts_list[i]) THEN Len(parts_list[i][p]) ELSE 0
                                  : i \in DOMAIN strs})]
    IN  [i \in DOMAIN strs |->
            Join([j \in DOMAIN parts_list[i] |->
                     parts_list[i][j] \o Zeros(max_lengths[j] - Len(parts_list[i][j]))])]

\* utils.add_padding
add_padding(strs) ==
    LET parts_list == List([i \in DOMAIN strs |-> Split(strs[i])])
        lengths == List([i \in DOMAIN strs |->
                       List([j \in DOMAIN parts_list[i] |-> Len(parts_list[i][j])])])
        max_parts == Max({Len(parts_list[i]) : i \in DOMAIN strs})
        max_lengths == List([p \in 1..max_parts |->
                           Max({get(lengths[i], p - 1) : i \in DOMAIN strs})])
    IN  List([i \in DOMAIN strs |->
            Join(List([j \in DOMAIN parts_list[i] |->
                     Zeros(max_lengths[j] - Len(parts_list[i][j])) \o parts_list[i][j]]))])

\* utils.to_int_list
to_int_list(string, multiplier) == List([i \in DOMAIN string |-> multiplier * string[i]])

\* A slip in get_index: the position is counted from the end of the list.
get_index_from_end(ls, item, default) ==
    IF ls # <<>> /\ \E i \in DOMAIN ls : ls[i] = item
    THEN Len(ls) - (CHOOSE i \in DOMAIN ls : ls[i] = item /\ \A m \in 1..(i - 1) : ls[m] # item)
    ELSE default

\* utils.get_index: ls.index(item) (0-based), or default when the list is
\* empty or does not hold the item.
get_index(ls, item, default) ==
    IF ls # <<>> /\ \E i \in DOMAIN ls : ls[i] = item
    THEN (CHOOSE i \in DOMAIN ls : ls[i] = item /\ \A m \in 1..(i - 1) : ls[m] # item) - 1
    ELSE default

----------------------------------------------------------------------------
(* add_padding on a sibling set of dotted numeric strings                  *)

\* Longest dotted string of the sibling set.
MaxStrLen == 3

\* Largest number of siblings passed to add_padding.
MaxStrings == 2

\* The digits that occur in the dotted strings: '0', '1', '9'.
DigitChars == {48, 49, 57}

\* Dotted numeric strings: non-empty runs of digits separated by single dots.
NumStrings ==
    {s \in SeqsUpTo(DigitChars \cup {DOT}, MaxStrLen) :
        /\ s # <<>>
        /\ s[1] # DOT
        /\ s[Len(s)] # DOT
        /\ \A i \in 1..(Len(s) - 1) : ~(s[i] = DOT /\ s[i + 1] = DOT)}

\* Largest number of characters in a sibling set.
MaxTotalLen == 6

\* The lists of n dotted strings with at most 'budget' characters in all.
RECURSIVE SiblingSets(_, _)
SiblingSets(n, budget) ==
    IF n = 0 THEN {<<>>}
    ELSE UNION {{<<s>> \o rest : rest \in SiblingSets(n - 1, budget - Len(s))} :
                    s \in {x \in NumStrings : Len(x) <= budget}}

InitPad ==
    /\ \E n \in 1..MaxStrings : strings \in SiblingSets(n, MaxTotalLen)
    /\ padded = <<>>
    /\ ppc = "input"
    /\ IdleIndex
    /\ IdleRank
    /\ IdleResolve
    /\ IdleParse
    /\ IdleConf
    /\ IdleSelect
    /\ IdleHash
    /\ IdleRegion
\* padded = add_padding([get_function(g) for g in games])
Pad ==
    /\ ppc = "input"
    /\ padded' = add_padding(strings)
    /\ ppc' = "padded"
    /\ UNCHANGED strings
    /\ UNCHANGED notPad

NextPad == Pad

SpecPad == InitPad /\ [][NextPad]_vars

\* The integer a run of decimal digits denotes.
RECURSIVE NumVal(_)
NumVal(part) ==
    IF part = <<>> THEN 0
    ELSE 10 * NumVal(SubSeq(part, 1, Len(part) - 1)) + (part[Len(part)] - ZERO)

\* The numeric segments of a dotted string.
Segments(s) == LET parts == Split(s) IN [j \in DOMAIN parts |-> NumVal(parts[j])]

\* C7: for every two results of add_padding on a sibling set of dotted
\* numeric strings, comparing the padded strings character by character
\* gives the same answer as comparing the original values segment by
\* segment as numbers (a value that is a proper prefix of another being the
\* smaller one).
C7_PaddedOrderIsNumeric ==
    ppc = "padded" =>
        \A i, j \in DOMAIN strings :
            ListCmp(padded[i], padded[j]) = ListCmp(Segments(strings[i]), Segments(strings[j]))

\* Witness of C7: "9" and "10" were padded to "09" and "10".
C7_Witness ==
    /\ ppc = "padded"
    /\ strings = << <<57>>, <<49, 48>> >>
    /\ padded = << <<48, 57>>, <<49, 48>> >>

----------------------------------------------------------------------------
(* Ranking of one bucket: pad_values, set_scores, games.sort               *)

\* Largest number of variants in one bucket.
MaxSiblings == 2

\* Largest number of attributes in which a variant differs from the plain
\* release "Game (USA)".
MaxDeviations == 1

\* Score of a region that is not selected.
UNSELECTED == 10000

\* The default of --language-weight.
language_weight == 3

\* NOT_PRERELEASE, the sub-tag of a variant that lacks the tag: "Z".
NOT_PRERELEASE == <<90>>

\* The strings "0", "1", "10", "1.1".
Str0 == <<48>>

Str1 == <<49>>

Str10 == <<49, 48>>

Str1d1 == <<49, 46, 49>>

\* --regions=USA,EUR
selected_regions == <<"USA", "EUR">>

\* The attributes parse_games gives the plain release "Game (USA)".
PlainRelease ==
    [is_bad |-> FALSE, is_prerelease |-> FALSE, region |-> "USA",
     languages |-> <<"en">>, revision |-> Str0, version |-> Str0,
     sample |-> NOT_PRERELEASE, demo |-> NOT_PRERELEASE,
     beta |-> NOT_PRERELEASE, proto |-> NOT_PRERELEASE,
     is_parent |-> TRUE, avoided |-> FALSE, preferred |-> FALSE]

Attributes == DOMAIN PlainRelease

\* The other values of each attribute. avoided and preferred stand for
\* check_in_pattern_list(name, avoid) and check_in_pattern_list(name, prefer).
OtherValues(f) ==
    CASE f = "region" -> {"EUR", "JPN"}
      [] f = "languages" -> {<<"en", "fr">>, <<"ja">>}
      [] f = "revision" -> {Str1, Str10, Str1d1}
      [] f = "version" -> {Str1, Str1d1}
      [] f \in {"sample", "demo", "beta", "proto"} -> {Str1}
      [] f = "is_parent" -> {FALSE}
      [] OTHER -> {TRUE}

\* The variants that differ from those of S in at most n attributes.
RECURSIVE Deviate(_, _)
Deviate(S, n) ==
    IF n = 0 THEN S
    ELSE Deviate(S \cup UNION {UNION {{[e EXCEPT ![f] = v] : v \in OtherValues(f)}
                                         : f \in Attributes} : e \in S},
                 n - 1)

\* The variants that differ from the plain release in at most n attributes.
\* A captured sub-tag implies that the tag matched (parse_games, is_prerelease).
KindsWithin(n) ==
    {[e EXCEPT !.is_prerelease =
          \/ e.is_prerelease
          \/ \E f \in {"sample", "demo", "beta", "proto"} : e[f] # NOT_PRERELEASE]
        : e \in Deviate({PlainRelease}, n)}

VariantKinds == KindsWithin(MaxDeviations)

\* Largest number of deviations from the plain run "Game (USA)" with the
\* default options: attributes of the bucket's variants that differ from
\* the plain release, plus option flags that are set.
MaxTotalDeviations == 2

Min(a, b) == IF a < b THEN a ELSE b

\* The buckets of n variants with at most 'budget' deviations in all.
RECURSIVE SiblingKinds(_, _)
SiblingKinds(n, budget) ==
    IF n = 0 THEN {<<>>}
    ELSE UNION {{<<k>> \o rest :
                    k \in IF d = 0 THEN KindsWithin(0)
                          ELSE KindsWithin(d) \ KindsWithin(d - 1),
                    rest \in SiblingKinds(n - 1, budget - d)} :
                d \in 0..Min(budget, MaxDeviations)}

\* The score of a GameEntry before set_scores.
NoScore ==
    [region |-> 0, languages |-> 0, revision |-> <<>>, version |-> <<>>,
     sample |-> <<>>, demo |-> <<>>, beta |-> <<>>, proto |-> <<>>]

\* The GameEntry made for the game at catalog index i.
GameEntry(k, i) ==
    [name |-> i, input_index |-> i, score |-> NoScore,
     is_bad |-> k.is_bad, is_prerelease |-> k.is_prerelease, region |-> k.region,
     languages |-> k.languages, revision |-> k.revision, version |-> k.version,
     sample |-> k.sample, demo |-> k.demo, beta |-> k.beta, proto |-> k.proto,
     is_parent |-> k.is_parent, avoided |-> k.avoided, preferred |-> k.preferred]

\* Largest number of behaviour flags set on the command line.
MaxFlags == 1

Flags == {"prioritize_languages", "prefer_prereleases", "prefer_parents",
          "input_order", "revision_asc", "version_asc", "languages"}

\* The flag sets that pass the mutual-exclusion checks of main, and the
\* configuration of each. With the languages flag the run has
\* --languages=en,fr, which main stores reversed; without it no language is
\* selected.
FlagSets ==
    {G \in SUBSET Flags :
        /\ Cardinality(G) <= MaxFlags
        /\ ~(({"revision_asc", "version_asc"} \cap G # {}) /\ "input_order" \in G)
        /\ ~(({"revision_asc", "version_asc"} \cap G # {}) /\ "prefer_parents" \in G)
        /\ ~("prefer_parents" \in G /\ "input_order" \in G)}

ConfigOf(F) ==
    [prioritize_languages |-> "prioritize_languages" \in F,
     prefer_prereleases |-> "prefer_prereleases" \in F,
     prefer_parents |-> "prefer_parents" \in F,
     input_order |-> "input_order" \in F,
     revision_asc |-> "revision_asc" \in F,
     version_asc |-> "version_asc" \in F,
     selected_languages |-> IF "languages" \in F THEN <<"fr", "en">> ELSE <<>>,
     language_weight |-> language_weight]

\* Sum of a list of integers.
RECURSIVE Sum(_)
Sum(ls) == IF ls = <<>> THEN 0 ELSE Head(ls) + Sum(Tail(ls))

\* pad_values for each of the six padded fields, in the order of main.
pad_all(gs) ==
    LET v == add_padding([i \in DOMAIN gs |-> gs[i].version])
        r == add_padding([i \in DOMAIN gs |-> gs[i].revision])
        s == add_padding([i \in DOMAIN gs |-> gs[i].sample])
        d == add_padding([i \in DOMAIN gs |-> gs[i].demo])
        b == add_padding([i \in DOMAIN gs |-> gs[i].beta])
        p == add_padding([i \in DOMAIN gs |-> gs[i].proto])
    IN  List([i \in DOMAIN gs |->
            [gs[i] EXCEPT !.version = v[i], !.revision = r[i], !.sample = s[i],
                          !.demo = d[i], !.beta = b[i], !.proto = p[i]]])

\* A slip: the weight is subtracted from each term instead of scaling it.
languages_score_shifted(game, weight) ==
    Sum([i \in DOMAIN game.languages |->
            (get_index(cfg.selected_languages, game.languages[i], -1) + 1) - weight])

\* languages_score of set_scores under the given --language-weight.
languages_score(game, weight) ==
    Sum([i \in DOMAIN game.languages |->
            (get_index(cfg.selected_languages, game.languages[i], -1) + 1)
                * (-weight)])

\* The Score set_scores assigns to one game.
score_of(game) ==
    [region |-> get_index(selected_regions, game.region, UNSELECTED),
     languages |-> languages_score(game, cfg.language_weight),
     revision |-> to_int_list(game.revision, IF cfg.revision_asc THEN 1 ELSE -1),
     version |-> to_int_list(game.version, IF cfg.version_asc THEN 1 ELSE -1),
     sample |-> to_int_list(game.sample, -1),
     demo |-> to_int_list(game.demo, -1),
     beta |-> to_int_list(game.beta, -1),
     proto |-> to_int_list(game.proto, -1)]

set_scores(gs) == List([i \in DOMAIN gs |-> [gs[i] EXCEPT !.score = score_of(gs[i])]])

\* Python's int(bool)
Bit(b) == IF b THEN 1 ELSE 0

\* GameEntryKeyGenerator.generate: the sort key of a variant, one element
\* per step of the precedence list (each element a list of integers).
generate(g) ==
    << <<Bit(g.is_bad)>>,
       <<Bit(IF cfg.prefer_prereleases THEN ~g.is_prerelease ELSE g.is_prerelease)>>,
       <<Bit(g.avoided)>>,
       <<IF cfg.prioritize_languages THEN g.score.languages ELSE g.score.region>>,
       <<IF cfg.prioritize_languages THEN g.score.region ELSE g.score.languages>>,
       <<Bit(cfg.prefer_parents /\ ~g.is_parent)>>,
       <<IF cfg.input_order THEN g.input_index ELSE 0>>,
       <<Bit(~g.preferred)>>,
       g.score.revision,
       g.score.version,
       g.score.sample,
       g.score.demo,
       g.score.beta,
       g.score.proto,
       <<-Len(g.languages)>>,
       <<Bit(~g.is_parent)>> >>

\* Python's comparison of two tuples whose elements are lists of integers.
RECURSIVE KeyCmp(_, _)
KeyCmp(a, b) ==
    IF a = <<>> /\ b = <<>> THEN 0
    ELSE IF a = <<>> THEN -1
    ELSE IF b = <<>> THEN 1
    ELSE IF ListCmp(Head(a), Head(b)) # 0 THEN ListCmp(Head(a), Head(b))
    ELSE KeyCmp(Tail(a), Tail(b))

\* A slip that makes the sort unstable: an element is placed before the
\* elements of equal key.
RECURSIVE insert_unstable(_, _)
insert_unstable(x, sorted) ==
    IF sorted = <<>> THEN <<x>>
    ELSE IF KeyCmp(generate(x), generate(Head(sorted))) <= 0 THEN <<x>> \o sorted
    ELSE <<Head(sorted)>> \o insert_unstable(x, Tail(sorted))

\* Stable insertion: x goes after every element whose key is not greater.
RECURSIVE insert_sorted(_, _)
insert_sorted(x, sorted) ==
    IF sorted = <<>> THEN <<x>>
    ELSE IF KeyCmp(generate(x), generate(Head(sorted))) < 0 THEN <<x>> \o sorted
    ELSE <<Head(sorted)>> \o insert_sorted(x, Tail(sorted))

\* games.sort(key=key_generator.generate): a stable sort by ascending key.
RECURSIVE sort(_)
sort(gs) ==
    IF gs = <<>> THEN <<>>
    ELSE insert_sorted(gs[Len(gs)], sort(SubSeq(gs, 1, Len(gs) - 1)))

\* One pass of the ranking loop body of main over a bucket.
rank(gs) == sort(set_scores(pad_all(gs)))

InitRank ==
    /\ \E F \in FlagSets :
          /\ Cardinality(F) <= MaxTotalDeviations
          /\ cfg = ConfigOf(F)
          /\ \E n \in 1..MaxSiblings :
             \E ks \in SiblingKinds(n, MaxTotalDeviations - Cardinality(F)) :
                games = [i \in 1..n |-> GameEntry(ks[i], i)]
    /\ rpc = "parsed"
    /\ IdleIndex
    /\ IdlePad
    /\ IdleResolve
    /\ IdleParse
    /\ IdleConf
    /\ IdleSelect
    /\ IdleHash
    /\ IdleRegion
\* The body of `for key in parsed_games` for this bucket.
Rank ==
    /\ rpc = "parsed"
    /\ games' = rank(games)
    /\ rpc' = "ranked"
    /\ UNCHANGED cfg
    /\ UNCHANGED notRank

\* The same body applied once more to the ranked bucket.
ReRank ==
    /\ rpc = "ranked"
    /\ games' = rank(games)
    /\ rpc' = "reranked"
    /\ UNCHANGED cfg
    /\ UNCHANGED notRank

NextRank ==
    \/ Rank
    \/ ReRank

SpecRank == InitRank /\ [][NextRank]_vars

\* ---- the sentinel of the prerelease families --------------------------

\* The prerelease families, in the order of their sort steps.
Families == {"sample", "demo", "beta", "proto"}

\* Characters of a captured sub-tag ([a-z0-9.]+): '0', '1', '.', 'a'.
SubTagChars == {ZERO, 49, DOT, 97}

\* The sub-tags captured from a name such as "(Beta 10)".
SubTags == SeqsUpTo(SubTagChars, MaxStrLen) \ {<<>>}

\* A bucket of two siblings: one carries the tag of a family with a
\* sub-tag, the other lacks it and is a final release or a prerelease of
\* another kind.
InitSentinel ==
    /\ \E f \in Families : \E tag \in SubTags : \E pre, tagged_first \in BOOLEAN :
          LET tagged == [PlainRelease EXCEPT ![f] = tag, !.is_prerelease = TRUE]
              lacking == [PlainRelease EXCEPT !.is_prerelease = pre]
          IN  games = IF tagged_first
                      THEN <<GameEntry(tagged, 1), GameEntry(lacking, 2)>>
                      ELSE <<GameEntry(lacking, 1), GameEntry(tagged, 2)>>
    /\ cfg = ConfigOf({})
    /\ rpc = "parsed"
    /\ IdleIndex
    /\ IdlePad
    /\ IdleResolve
    /\ IdleParse
    /\ IdleConf
    /\ IdleSelect
    /\ IdleHash
    /\ IdleRegion

NextSentinel == Rank

SpecSentinel == InitSentinel /\ [][NextSentinel]_vars

\* The sibling of the bucket gs with the given catalog index.
Sibling(gs, name) == CHOOSE g \in Range(gs) : g.name = name

\* C30: for each prerelease family, which of two siblings ranks first at
\* that family's sort step, one lacking the tag (sentinel "Z") and one
\* carrying it, does not depend on the length of the sub-tag: the padded
\* values compare as the sentinel and the sub-tag themselves compare.
C30_PaddingKeepsSentinelOrder ==
    [][(rpc = "parsed" /\ rpc' = "ranked" /\ Len(games) = 2) =>
        \A f \in Families :
            ((games[1][f] = NOT_PRERELEASE) # (games[2][f] = NOT_PRERELEASE)) =>
                ListCmp(Sibling(games', 1).score[f], Sibling(games', 2).score[f]) =
                    ListCmp(to_int_list(games[1][f], -1),
                            to_int_list(games[2][f], -1))]_vars

\* The order of the variants of the bucket, by catalog position.
NameOrder(gs) == [i \in DOMAIN gs |-> gs[i].name]

\* Two variants tie on the sort steps that precede the revision step.
TieBeforeRevision(a, b) ==
    /\ a.is_bad = b.is_bad
    /\ a.is_prerelease = b.is_prerelease
    /\ a.avoided = b.avoided
    /\ a.score.region = b.score.region
    /\ a.score.languages = b.score.languages
    /\ cfg.prefer_parents => (a.is_parent = b.is_parent)
    /\ cfg.input_order => (a.input_index = b.input_index)
    /\ a.preferred = b.preferred

\* C8: with latest-revision and latest-version selection, of two ranked
\* variants that tie on every higher-priority step the one ranked first has
\* the numerically greater or equal revision, segment by segment, and on
\* equal revisions the greater or equal version.
C8_LatestRevisionFirst ==
    (rpc = "ranked" /\ ~cfg.revision_asc /\ ~cfg.version_asc) =>
        \A i, j \in DOMAIN games :
            (i < j /\ TieBeforeRevision(games[i], games[j])) =>
                LET rev == ListCmp(Segments(games[i].revision), Segments(games[j].revision))
                    ver == ListCmp(Segments(games[i].version), Segments(games[j].version))
                IN  rev > 0 \/ (rev = 0 /\ ver >= 0)

\* Position of a region in the --regions list (1 = most preferred), 0 when
\* the region is not selected.
RegionPosition(r) ==
    IF \E k \in DOMAIN selected_regions : selected_regions[k] = r
    THEN CHOOSE k \in DOMAIN selected_regions :
             selected_regions[k] = r /\ \A m \in 1..(k - 1) : selected_regions[m] # r
    ELSE 0

\* C9: the ranked bucket is in ascending lexicographic order of the 16-step
\* key; in particular, among variants that tie on bad-dump, prerelease and
\* avoided status, a variant of an earlier selected region precedes one of
\* a later or unselected region (unless languages are prioritized), and by
\* default a released good dump precedes a prerelease one.
C9_KeyPrecedence ==
    rpc = "ranked" =>
        \A i, j \in DOMAIN games :
            i < j =>
                LET a == games[i]
                    b == games[j]
                IN  /\ KeyCmp(generate(a), generate(b)) <= 0
                    /\ ( /\ ~cfg.prioritize_languages
                         /\ a.is_bad = b.is_bad
                         /\ a.is_prerelease = b.is_prerelease
                         /\ a.avoided = b.avoided
                         /\ RegionPosition(b.region) # 0 )
                       => ( /\ RegionPosition(a.region) # 0
                            /\ RegionPosition(a.region) <= RegionPosition(b.region) )
                    /\ (~cfg.prefer_prereleases /\ a.is_bad = b.is_bad)
                       => (a.is_prerelease => b.is_prerelease)

\* Witness of C9: the sort moved a USA variant in front of a Europe variant
\* that came first in the catalog and is the better one at a later step.
C9_Witness ==
    /\ rpc = "ranked"
    /\ Len(games) = 2
    /\ games[1].region = "USA" /\ games[2].region = "EUR"
    /\ games[1].name > games[2].name
    /\ ~games[1].is_parent /\ games[2].is_parent

\* C10: ranking an already-ranked bucket again, with the same
\* configuration, leaves the order of its variants unchanged, and the
\* ranked order keeps variants of equal key in catalog order.
C10_RankIdempotent ==
    [][ /\ rpc = "ranked" => NameOrder(games') = NameOrder(games)
        /\ \A i, j \in DOMAIN games' :
              (i < j /\ KeyCmp(generate(games'[i]), generate(games'[j])) = 0)
                  => games'[i].name < games'[j].name ]_vars

\* Witness of C10: a bucket whose first ranking changed the catalog order
\* has been ranked a second time.
C10_Witness ==
    /\ rpc = "reranked"
    /\ Len(games) = 2
    /\ games[1].name > games[2].name

\* ======================================================================
\* Candidate resolution: the loop of main over the ranked buckets.
\* ======================================================================

MaxGames == 2

\* The variants of all buckets of a run together.
MaxVariants == 2

MaxCands == 2

MaxRoms == 2

\* The files of the input directory the index can name: 1 is a plain file,
\* 2 is a ZIP container.
Paths == {1, 2}

ZipPaths == {2}

\* One <rom> of a catalog game: its digest and its declared size.
RomKinds == {[sha1 |-> "a", size |-> 1], [sha1 |-> "b", size |-> 2]}

\* A candidate as the loop reads it: its ROM list and whether its name
\* matches an exclude-after pattern.
EntryKinds ==
    [roms : SeqsUpTo(RomKinds, MaxRoms), excl_after : BOOLEAN]

\* The digest indexes index_files can return over Paths: a plain file has
\* one digest, a container may hold several.
HashIndexes ==
    {h \in [Digests -> Paths \cup {None}] :
        \A p \in Paths \ ZipPaths :
            Cardinality({d \in Digests : h[d] = p}) <= 1}

\* The mode of a run: use_hashes needs an input directory, an output
\* directory needs one too, and move acts only through transfer_file, which
\* is called only with an output directory.
OptionSets ==
    {o \in [use_hashes : BOOLEAN, input_dir : BOOLEAN, output_dir : BOOLEAN,
            move : BOOLEAN, all_regions : BOOLEAN] :
        /\ o.use_hashes => o.input_dir
        /\ o.output_dir => o.input_dir
        /\ o.move => o.output_dir}

\* rom_size before its first assignment.
Unbound == -1

\* What the manifest holds: a path relative to the input directory in
\* hash mode, a file name otherwise; the codes order as the strings do.
name_of(g, c) == 10 * g + c + 1

file_item(name) == 10 * name

rom_item(name, k) == 10 * name + k

\* zipfile.is_zipfile of an indexed path: false for a file that is gone.
is_zip_path(path, disk) == path \in disk /\ path \in ZipPaths

\* rom_size after the loop "for entry_rom in entry.roms".
last_rom_size(e, prev) ==
    IF e.roms = <<>> THEN prev ELSE e.roms[Len(e.roms)].size

\* check_in_pattern_list(entry.name, exclude_after).
excluded_never(e) == FALSE

excluded(e) == e.excl_after

\* transfer_file: the copy, move or link fails with OSError, which it
\* reports and swallows, when the source is gone.
transfer_ok(path, disk) == path \in disk

NoCopies ==
    [copied_files |-> {}, listed |-> <<>>, sizes |-> <<>>, moved |-> <<>>,
     disk |-> {}]

\* A slip: a located path is listed or transferred for every ROM that
\* resolves to it.
RECURSIVE hash_roms_all(_, _, _, _)
hash_roms_all(roms, k, rsize, acc) ==
    IF k > Len(roms) THEN acc
    ELSE LET rom_input_path == hash_index[roms[k].sha1]
             ok == transfer_ok(rom_input_path, acc.disk)
             noted == [acc EXCEPT
                        !.listed = Append(@, rom_input_path),
                        !.sizes = Append(@, rsize),
                        !.copied_files = @ \cup {rom_input_path}]
             step ==
                IF rom_input_path = None THEN acc
                ELSE IF ~opts.output_dir THEN noted
                ELSE [noted EXCEPT
                        !.moved = Append(@, [src |-> rom_input_path, ok |-> ok]),
                        !.disk = IF opts.move /\ ok
                                 THEN @ \ {rom_input_path} ELSE @]
         IN  hash_roms_all(roms, k + 1, rsize, step)

\* The loop over the ROMs of a hash-mode candidate, from ROM k on.
RECURSIVE hash_roms(_, _, _, _)
hash_roms(roms, k, rsize, acc) ==
    IF k > Len(roms) THEN acc
    ELSE LET rom_input_path == hash_index[roms[k].sha1]
             fresh == rom_input_path \notin acc.copied_files
             ok == transfer_ok(rom_input_path, acc.disk)
             noted == [acc EXCEPT
                        !.listed = Append(@, rom_input_path),
                        !.sizes = Append(@, rsize),
                        !.copied_files = @ \cup {rom_input_path}]
             step ==
                IF rom_input_path = None THEN acc
                ELSE IF ~opts.output_dir
                     THEN IF fresh THEN noted ELSE acc
                ELSE IF fresh
                     THEN [noted EXCEPT
                            !.moved = Append(@, [src |-> rom_input_path, ok |-> ok]),
                            !.disk = IF opts.move /\ ok
                                     THEN @ \ {rom_input_path} ELSE @]
                ELSE acc
         IN  hash_roms(roms, k + 1, rsize, step)

\* "if copied_files: break".
satisfied_never(copied_files) == FALSE

satisfied(copied_files) == copied_files # {}

\* printed_items.sort(key=str.casefold).
RECURSIVE insert_item(_, _)
insert_item(sorted, x) ==
    IF sorted = <<>> THEN <<x>>
    ELSE IF x < Head(sorted) THEN <<x>> \o sorted
    ELSE <<Head(sorted)>> \o insert_item(Tail(sorted), x)

RECURSIVE sort_items(_)
sort_items(items) ==
    IF items = <<>> THEN <<>>
    ELSE insert_item(sort_items(SubSeq(items, 1, Len(items) - 1)), items[Len(items)])

InitResolve ==
    /\ opts \in OptionSets
    /\ hash_index \in IF opts.use_hashes THEN HashIndexes
                      ELSE {[d \in Digests |-> None]}
    /\ on_disk = {p \in Paths : \E d \in Digests : hash_index[d] = p}
    /\ game_no = 0
    /\ size = 0
    /\ cand = 0
    /\ entry = <<>>
    /\ rom_size = Unbound
    /\ printed_items = <<>>
    /\ printed_sizes = <<>>
    /\ transfers = <<>>
    /\ no_eligible = {}
    /\ summary = <<>>
    /\ walked = <<>>
    /\ spc = "next"
    /\ drawn = 0
    /\ IdleIndex
    /\ IdlePad
    /\ IdleRank
    /\ IdleParse
    /\ IdleConf
    /\ IdleSelect
    /\ IdleHash
    /\ IdleRegion
\* The candidate loop goes on to index cand + 1, or ends with the list.
Continue ==
    /\ cand' = cand + 1
    /\ spc' = IF cand + 1 = size THEN "next" ELSE "walk"

\* "break".
Break ==
    /\ cand' = cand
    /\ spc' = "next"

Walked(e, verdict, listed, moved) ==
    Append(walked, [excl_after |-> e.excl_after, verdict |-> verdict,
                    listed |-> listed, moved |-> moved])

\* The head of the outer loop: the next bucket is read and filtered.
\* included[k] is include_candidate of the bucket's k-th variant.
EnterBucket ==
    /\ spc = "next"
    /\ game_no < MaxGames
    /\ \E n \in 1..MaxCands : \E included \in [1..n -> BOOLEAN] :
          /\ drawn + n <= MaxVariants
          /\ drawn' = drawn + n
          /\ size' = IF opts.all_regions THEN n
                     ELSE Cardinality({k \in 1..n : included[k]})
          /\ spc' = IF size' = 0 THEN "next" ELSE "walk"
    /\ game_no' = game_no + 1
    /\ cand' = 0
    /\ entry' = <<>>
    /\ walked' = <<>>
    /\ UNCHANGED <<opts, hash_index, on_disk, rom_size, printed_items,
                   printed_sizes, transfers, no_eligible, summary>>
    /\ UNCHANGED notResolve

\* The candidate matches an exclude-after pattern: the bucket is left.
ExcludeAfter(e) ==
    /\ spc = "walk"
    /\ excluded(e)
    /\ entry' = e
    /\ rom_size' = last_rom_size(e, rom_size)
    /\ walked' = Walked(e, "excluded", <<>>, <<>>)
    /\ Break
    /\ UNCHANGED <<opts, hash_index, on_disk, game_no, size, printed_items,
                   printed_sizes, transfers, no_eligible, summary>>
    /\ UNCHANGED drawn
    /\ UNCHANGED notResolve

\* A candidate in hash mode.
HashCandidate(e) ==
    /\ spc = "walk"
    /\ ~excluded(e)
    /\ opts.use_hashes
    /\ LET rsize == last_rom_size(e, rom_size)
           r == hash_roms(e.roms, 1, rsize, [NoCopies EXCEPT !.disk = on_disk])
       IN  /\ entry' = e
           /\ rom_size' = rsize
           /\ printed_items' = printed_items \o r.listed
           /\ printed_sizes' = printed_sizes \o r.sizes
           /\ transfers' = transfers \o r.moved
           /\ on_disk' = r.disk
           /\ IF satisfied(r.copied_files)
              THEN /\ Break
                   /\ walked' = Walked(e, "taken", r.listed, r.moved)
                   /\ UNCHANGED no_eligible
              ELSE /\ Continue
                   /\ walked' = Walked(e, "missing", r.listed, r.moved)
                   /\ no_eligible' = IF cand = size - 1
                                     THEN no_eligible \cup {game_no}
                                     ELSE no_eligible
    /\ UNCHANGED <<opts, hash_index, game_no, size, summary>>
    /\ UNCHANGED drawn
    /\ UNCHANGED notResolve

\* The ROMs of a directory candidate that are files, in catalog order.
present_roms(e, present) ==
    SelectSeq([k \in 1..Len(e.roms) |-> k], LAMBDA k : k \in present)

\* A candidate in file-name mode: input_dir / (name + extension) is a
\* file, a directory whose ROMs in 'present' are files, or neither.
NameCandidate(e) ==
    /\ spc = "walk"
    /\ ~excluded(e)
    /\ ~opts.use_hashes
    /\ opts.input_dir
    /\ entry' = e
    /\ rom_size' = last_rom_size(e, rom_size)
    /\ \E full_path \in {"file", "dir", "none"} :
       \E present \in SUBSET (1..Len(e.roms)) :
          LET name == name_of(game_no, cand)
              found == present_roms(e, present)
              items == IF full_path = "file" THEN <<file_item(name)>>
                       ELSE [k \in DOMAIN found |-> rom_item(name, found[k])]
              moved == [k \in DOMAIN items |-> [src |-> items[k], ok |-> TRUE]]
          IN  /\ full_path # "dir" => present = {}
              /\ IF full_path = "none"
                 THEN /\ Continue
                      /\ walked' = Walked(e, "missing", <<>>, <<>>)
                      /\ no_eligible' = IF cand = size - 1
                                        THEN no_eligible \cup {game_no}
                                        ELSE no_eligible
                      /\ UNCHANGED <<printed_items, transfers>>
                 ELSE /\ Break
                      /\ UNCHANGED no_eligible
                      /\ IF opts.output_dir
                         THEN /\ transfers' = transfers \o moved
                              /\ walked' = Walked(e, "taken", <<>>, moved)
                              /\ UNCHANGED printed_items
                         ELSE /\ printed_items' = printed_items \o items
                              /\ walked' = Walked(e, "taken", items, <<>>)
                              /\ UNCHANGED transfers
    /\ UNCHANGED <<opts, hash_index, on_disk, game_no, size, printed_sizes,
                   summary>>
    /\ UNCHANGED drawn
    /\ UNCHANGED notResolve

\* A candidate without an input directory: it is listed by name.  Reading
\* rom_size before any candidate had a ROM raises UnboundLocalError.
ListCandidate(e) ==
    /\ spc = "walk"
    /\ ~excluded(e)
    /\ ~opts.use_hashes
    /\ ~opts.input_dir
    /\ entry' = e
    /\ rom_size' = last_rom_size(e, rom_size)
    /\ LET item == file_item(name_of(game_no, cand))
       IN  IF rom_size' = Unbound
           THEN /\ printed_items' = Append(printed_items, item)
                /\ spc' = "crashed"
                /\ cand' = cand
                /\ walked' = Walked(e, "taken", <<item>>, <<>>)
                /\ UNCHANGED printed_sizes
           ELSE /\ printed_items' = Append(printed_items, item)
                /\ printed_sizes' = Append(printed_sizes, rom_size')
                /\ walked' = Walked(e, "taken", <<item>>, <<>>)
                /\ Break
    /\ UNCHANGED <<opts, hash_index, on_disk, game_no, size, transfers,
                   no_eligible, summary>>
    /\ UNCHANGED drawn
    /\ UNCHANGED notResolve

\* After the last bucket: the manifest is sorted and the totals printed.
Summary ==
    /\ spc = "next"
    /\ printed_items' = sort_items(printed_items)
    /\ summary' = [files |-> Len(printed_items),
                   uncompressed |-> Sum(printed_sizes)]
    /\ spc' = "done"
    /\ UNCHANGED <<opts, hash_index, on_disk, game_no, size, cand, entry,
                   rom_size, printed_sizes, transfers, no_eligible, walked>>
    /\ UNCHANGED drawn
    /\ UNCHANGED notResolve

NextResolve ==
    \/ EnterBucket
    \/ \E e \in EntryKinds : ExcludeAfter(e)
    \/ \E e \in EntryKinds : HashCandidate(e)
    \/ \E e \in EntryKinds : NameCandidate(e)
    \/ \E e \in EntryKinds : ListCandidate(e)
    \/ Summary

SpecResolve == InitResolve /\ [][NextResolve]_vars

\* ---- claims about candidate resolution -------------------------------

\* The candidate produced output: a transfer or a manifest entry.
Produced(r) == r.listed # <<>> \/ r.moved # <<>>

\* Every ROM reference of the candidate has a source in the digest index.
AllLocated(e) == \A k \in DOMAIN e.roms : hash_index[e.roms[k].sha1] # None

\* The walk of the current bucket is over.
BucketOver == spc \in {"next", "done"} /\ game_no >= 1

LastWalked == walked[Len(walked)]

\* C3: in hash mode the walk stops at a candidate, the bucket being
\* satisfied, only if every ROM reference of that candidate has a located
\* source in the digest index; a candidate with a ROM digest absent from
\* the index does not satisfy the bucket.
C3_SatisfiedOnlyIfEveryRomLocated ==
    (spc # "off" /\ opts.use_hashes /\ walked # <<>> /\ LastWalked.verdict = "taken")
        => AllLocated(entry)

\* C4: in every bucket at most one variant produces output: a candidate
\* that produced output is the last one examined and the walk is over, and
\* a candidate passed over as missing produced nothing.
C4_AtMostOneVariantProduces ==
    spc # "off" =>
        \A k \in DOMAIN walked :
            /\ Produced(walked[k]) => (k = Len(walked) /\ spc # "walk")
            /\ walked[k].verdict = "missing" => ~Produced(walked[k])

\* A candidate produced output while a later-ranked one was still waiting.
C4_Witness ==
    /\ spc = "next"
    /\ Len(walked) = 1
    /\ size = 2
    /\ Produced(walked[1])

\* C5: when the candidate reached matches an exclude-after pattern the
\* bucket is abandoned: that candidate produces nothing and no later
\* candidate of the bucket is examined.
C5_ExcludeAfterAbandonsBucket ==
    spc # "off" =>
        \A k \in DOMAIN walked :
            walked[k].excl_after =>
                /\ ~Produced(walked[k])
                /\ k = Len(walked)
                /\ spc # "walk"

\* The bucket was abandoned at a candidate whose ROMs are all in the
\* index, with a later-ranked candidate left.
C5_Witness ==
    /\ spc = "next"
    /\ opts.use_hashes
    /\ walked # <<>>
    /\ LastWalked.excl_after
    /\ Len(walked) < size
    /\ entry.roms # <<>>
    /\ AllLocated(entry)

\* C6: for every bucket in which no candidate is satisfied, whatever the
\* number of candidates the inclusion filter left, a bucket-level failure
\* is logged for that bucket and the bucket produces no output.
C6_UnsatisfiedBucketIsLogged ==
    (BucketOver /\ \A k \in DOMAIN walked : walked[k].verdict # "taken")
        => /\ game_no \in no_eligible
           /\ \A k \in DOMAIN walked : ~Produced(walked[k])

\* C25: within one candidate in hash mode each distinct located source
\* path is listed or transferred at most once, even when several ROM
\* references of the candidate resolve to that path.
C25_PathOncePerCandidate ==
    opts.use_hashes =>
        \A w \in DOMAIN walked :
            /\ \A j, k \in DOMAIN walked[w].listed :
                  j # k => walked[w].listed[j] # walked[w].listed[k]
            /\ \A j, k \in DOMAIN walked[w].moved :
                  j # k => walked[w].moved[j].src # walked[w].moved[k].src

\* Both ROMs of a candidate resolved to one archive, which was transferred
\* once.
C25_Witness ==
    /\ spc = "next"
    /\ opts.use_hashes /\ opts.output_dir
    /\ walked # <<>>
    /\ Len(entry.roms) = 2
    /\ entry.roms[1] # entry.roms[2]
    /\ \A k \in DOMAIN entry.roms : hash_index[entry.roms[k].sha1] = 2
    /\ LastWalked.verdict = "taken"
    /\ Len(LastWalked.moved) = 1

\* C28: with an output directory, every entry counted in the manifest and
\* the summary of a hash-mode run corresponds to a transfer that succeeded;
\* in move mode a source moved for an earlier bucket is not counted again
\* for a later bucket with the same digest.
C28_CountedEntriesWereTransferred ==
    (spc = "done" /\ opts.use_hashes /\ opts.output_dir) =>
        /\ Len(transfers) = summary.files
        /\ \A k \in DOMAIN transfers : transfers[k].ok

\* The catalog sizes of the ROM references of e that the digest index
\* resolves to a file, from ROM k on.
RECURSIVE ResolvedSizes(_, _)
ResolvedSizes(e, k) ==
    IF k > Len(e.roms) THEN 0
    ELSE (IF hash_index[e.roms[k].sha1] # None THEN e.roms[k].size ELSE 0)
         + ResolvedSizes(e, k + 1)

\* C18: in the final summary the file count is the number of manifest
\* entries and the uncompressed total is the sum of the catalog sizes of
\* the ROM references resolved for the chosen candidates (stated for a run
\* in hash mode whose one bucket was satisfied by its first candidate).
C18_SummaryTotals ==
    spc = "done" =>
        /\ summary.files = Len(printed_items)
        /\ (/\ opts.use_hashes
            /\ game_no = 1
            /\ Len(walked) = 1
            /\ walked[1].verdict = "taken")
               => summary.uncompressed = ResolvedSizes(entry, 1)

\* ======================================================================
\* Catalog parsing: parse_games.
\* ======================================================================

\* Largest number of games in the catalog.
MaxCatalog == 2

\* Largest number of deviations of a run from the plain one: attributes of
\* catalog games that differ from the plain game "Game (USA)" with one ROM,
\* plus --no-* options given, plus an exclude list.
MaxCatalogDeviations == 2

\* The tags the filter patterns of parse_games look for in a game name.
Tags == {"bios", "unl", "pirate", "bad", "aftermarket", "homebrew", "kiosk",
         "promo", "debug", "program", "enhancement_chip", "beta", "demo",
         "sample", "proto"}

\* What a name can carry beyond its title and region: one tag, or "(Unl)"
\* together with "(Aftermarket)" or "(Homebrew)".
TagSuffixes ==
    {{t} : t \in Tags} \cup {{"unl", "aftermarket"}, {"unl", "homebrew"}}

\* The filters --no-all switches on.
NoAllFilters == Tags \ {"unl"}

\* The options that set filter flags: "bios" is --no-bios and so on.
NoOptions == NoAllFilters \cup {"all", "unlicensed", "unlicensed_strict"}

\* filter_<f> after the option loop of main.
filter_never(f) == FALSE

filter(f) ==
    \/ f \in no_options
    \/ f \in NoAllFilters /\ "all" \in no_options

\* The parent name of a clone whose parent is not in the catalog.
Orphan == 99

\* The plain game "Game (USA)": one ROM, no clone-of, no release element.
\* matches_exclude is whether the name matches a pattern of the exclude list.
PlainGame ==
    [tags |-> {}, matches_exclude |-> FALSE, cloneof |-> None,
     name_regions |-> <<"USA">>, release |-> <<>>,
     rom |-> <<[sha1 |-> "a", size |-> 1]>>]

\* The games at catalog index i that differ from g in one attribute.
GameDeviations(g, i, n) ==
    {[g EXCEPT !.tags = @ \cup ts] : ts \in TagSuffixes}
    \cup {[g EXCEPT !.matches_exclude = TRUE]}
    \cup {[g EXCEPT !.cloneof = c] : c \in ((1..n) \ {i}) \cup {Orphan}}
    \cup {[g EXCEPT !.name_regions = r] : r \in {<<>>, <<"USA", "EUR">>}}
    \cup {[g EXCEPT !.release = r] : r \in {<<"EUR">>, <<"usa">>, <<"XX">>}}
    \cup {[g EXCEPT !.rom = <<>>]}

\* The games at index i at most d deviations away from the plain game.
RECURSIVE GamesWithin(_, _, _)
GamesWithin(d, i, n) ==
    IF d = 0 THEN {PlainGame}
    ELSE LET nearer == GamesWithin(d - 1, i, n)
         IN  nearer \cup UNION {GameDeviations(g, i, n) : g \in nearer}

\* table[i][d + 1]: the games at index i exactly d deviations away.
GamesTable(n, budget) ==
    List([i \in 1..n |->
            LET within == List([d \in 1..(budget + 1) |-> GamesWithin(d - 1, i, n)])
            IN  List([d \in 1..(budget + 1) |->
                        IF d = 1 THEN within[1] ELSE within[d] \ within[d - 1]])])

\* The ways to split at most 'budget' deviations over n games.
RECURSIVE Splits(_, _)
Splits(n, budget) ==
    IF n = 0 THEN {<<>>}
    ELSE UNION {{<<d>> \o rest : rest \in Splits(n - 1, budget - d)} : d \in 0..budget}

\* The catalogs whose game at each index k >= i deviates split[k] times.
RECURSIVE Catalogs(_, _, _)
Catalogs(table, split, i) ==
    IF i > Len(split) THEN {<<>>}
    ELSE {<<g>> \o rest : g \in table[i][split[i] + 1],
                          rest \in Catalogs(table, split, i + 1)}

\* The "continue" tests of parse_games, in their order.
skipped(g) ==
    \/ filter("bios") /\ "bios" \in g.tags
    \/ /\ filter("unlicensed")
       /\ "unl" \in g.tags
       /\ "aftermarket" \notin g.tags
       /\ "homebrew" \notin g.tags
    \/ filter("unlicensed_strict") /\ "unl" \in g.tags
    \/ \E t \in {"pirate", "bad", "aftermarket", "homebrew", "kiosk", "promo",
                 "debug", "program", "enhancement_chip", "beta", "demo",
                 "sample", "proto"} : filter(t) /\ t \in g.tags
    \/ exclude /\ g.matches_exclude

\* The codes of COUNTRY_REGION_CORRELATION.
KnownRegions == {"USA", "EUR", "JPN"}

\* A slip: the code is looked up as given.
upper_never(code) == code

\* code.upper()
upper(code) ==
    CASE code \in {"usa", "Usa"} -> "USA"
      [] code \in {"xx", "Xx"} -> "XX"
      [] code = "yy" -> "YY"
      [] OTHER -> code

\* region_data after the loop over game.release, from release k on.
RECURSIVE merge_release(_, _, _)
merge_release(region_data, release, k) ==
    IF k > Len(release) THEN region_data
    ELSE merge_release(
            IF release[k] \notin Range(region_data)
            THEN Append(region_data, upper(release[k]))
            ELSE region_data,
            release, k + 1)

region_codes(g) == merge_release(g.name_regions, g.release, 1)

\* parent_name: the clone-of target when there is one, else the own name.
own_name(g, i) == i

parent_name(g, i) == IF g.cloneof # None THEN g.cloneof ELSE i

\* The GameEntry list of the game at catalog index i: one per region.
game_entries(g, i) ==
    LET codes == region_codes(g)
    IN  [k \in DOMAIN codes |->
            [name |-> i, input_index |-> i, region |-> codes[k],
             is_parent |-> g.cloneof = None,
             is_bad |-> "bad" \in g.tags,
             is_prerelease |-> g.tags \cap {"beta", "demo", "sample", "proto"} # {},
             roms |-> g.rom]]

\* What parse_games logs for a game it did not skip.
game_log(g, i) ==
    {<<i, "Unrecognized region">> : c \in Range(region_codes(g)) \ KnownRegions}
    \cup (IF region_codes(g) = <<>> THEN {<<i, "No recognizable regions found">>} ELSE {})
    \cup (IF g.rom = <<>> THEN {<<i, "No ROMs found in DAT file">>} ELSE {})

\* The subsets of S with k elements.
RECURSIVE KSubsets(_, _)
KSubsets(S, k) ==
    IF k = 0 THEN {{}}
    ELSE IF S = {} THEN {}
    ELSE LET x == CHOOSE y \in S : TRUE
         IN  KSubsets(S \ {x}, k) \cup {T \cup {x} : T \in KSubsets(S \ {x}, k - 1)}

\* The option choices that count for 'spent' deviations.
OptionChoices(spent) ==
    {<<o, FALSE>> : o \in KSubsets(NoOptions, spent)}
    \cup (IF spent = 0 THEN {}
          ELSE {<<o, TRUE>> : o \in KSubsets(NoOptions, spent - 1)})

InitParse ==
    /\ \E spent \in 0..MaxCatalogDeviations : \E n \in 1..MaxCatalog :
          /\ \E split \in Splits(n, MaxCatalogDeviations - spent) :
                catalog \in Catalogs(GamesTable(n, MaxCatalogDeviations - spent), split, 1)
          /\ \E oc \in OptionChoices(spent) :
                /\ no_options = oc[1]
                /\ exclude = oc[2]
    /\ input_index = 0
    /\ parsed_games = EmptyMap
    /\ parse_log = {}
    /\ gpc = "parsing"
    /\ IdleIndex
    /\ IdlePad
    /\ IdleRank
    /\ IdleResolve
    /\ IdleConf
    /\ IdleSelect
    /\ IdleHash
    /\ IdleRegion
\* The game at input_index is skipped by a filter or the exclude list.
SkipGame ==
    /\ gpc = "parsing"
    /\ input_index < Len(catalog)
    /\ skipped(catalog[input_index + 1])
    /\ input_index' = input_index + 1
    /\ UNCHANGED <<catalog, no_options, exclude, parsed_games, parse_log, gpc>>
    /\ UNCHANGED notParse

\* The game at input_index is parsed: its entries join the bucket of its
\* parent name, or it is logged as having no region.
AddGame ==
    /\ gpc = "parsing"
    /\ input_index < Len(catalog)
    /\ LET i == input_index + 1
           g == catalog[i]
           entries == game_entries(g, i)
           key == parent_name(g, i)
       IN  /\ ~skipped(g)
           /\ parsed_games' =
                 IF entries = <<>> THEN parsed_games
                 ELSE IF key \notin DOMAIN parsed_games
                      THEN Put(parsed_games, key, entries)
                 ELSE Put(parsed_games, key, parsed_games[key] \o entries)
           /\ parse_log' = parse_log \cup game_log(g, i)
    /\ input_index' = input_index + 1
    /\ UNCHANGED <<catalog, no_options, exclude, gpc>>
    /\ UNCHANGED notParse

\* return games
ParseReturn ==
    /\ gpc = "parsing"
    /\ input_index = Len(catalog)
    /\ gpc' = "parsed"
    /\ UNCHANGED <<catalog, no_options, exclude, input_index, parsed_games,
                   parse_log>>
    /\ UNCHANGED notParse

NextParse ==
    \/ SkipGame
    \/ AddGame
    \/ ParseReturn

SpecParse == InitParse /\ [][NextParse]_vars

\* ---- claims about catalog parsing --------------------------------------

\* The entries of all buckets.
AllEntries == UNION {Range(parsed_games[key]) : key \in DOMAIN parsed_games}

\* The catalog game an entry was made from.
GameOf(e) == catalog[e.input_index]

\* C11: no bucket holds a variant whose name carries the tag of an enabled
\* exclusion filter or matches an exclude pattern; under plain
\* --no-unlicensed an unlicensed game is excluded unless it is also tagged
\* aftermarket or homebrew, in which case it is kept.
C11_FilteredGamesAreNoVariants ==
    /\ \A e \in AllEntries :
          LET tags == GameOf(e).tags
          IN  /\ \A t \in NoAllFilters :
                    (t \in no_options \/ "all" \in no_options) => t \notin tags
              /\ "unlicensed_strict" \in no_options => "unl" \notin tags
              /\ ("unlicensed" \in no_options /\ "unl" \in tags)
                    => tags \cap {"aftermarket", "homebrew"} # {}
              /\ exclude => ~GameOf(e).matches_exclude
    /\ (gpc = "parsed" /\ no_options = {"unlicensed"} /\ ~exclude) =>
          \A i \in DOMAIN catalog :
             (/\ "unl" \in catalog[i].tags
              /\ catalog[i].tags \cap {"aftermarket", "homebrew"} # {}
              /\ region_codes(catalog[i]) # <<>>)
                => \E e \in AllEntries : e.input_index = i

\* A [BIOS] game was left out under --no-bios while another game was kept.
C11_Witness ==
    /\ gpc = "parsed"
    /\ "bios" \in no_options
    /\ \E i \in DOMAIN catalog :
          /\ "bios" \in catalog[i].tags
          /\ \A e \in AllEntries : e.input_index # i
    /\ AllEntries # {}

\* C16: a catalog game with zero ROM entries contributes no variant to
\* any bucket (and is logged).
C16_ZeroRomGameAddsNoVariant ==
    /\ \A e \in AllEntries : GameOf(e).rom # <<>>
    /\ \A i \in 1..input_index :
          (catalog[i].rom = <<>> /\ ~skipped(catalog[i]))
              => <<i, "No ROMs found in DAT file">> \in parse_log

\* C20: every variant is in the bucket keyed by its game's clone-of target
\* when it has one and by the game's own name otherwise, each parsed game
\* with a recognized region has one variant per region there, a game
\* without a recognized region adds none, and no bucket is empty.
C20_BucketKeyedByParent ==
    /\ \A key \in DOMAIN parsed_games :
          /\ parsed_games[key] # <<>>
          /\ \A e \in Range(parsed_games[key]) :
                key = IF GameOf(e).cloneof # None THEN GameOf(e).cloneof
                      ELSE e.name
    /\ \A i \in 1..input_index :
          LET g == catalog[i]
              key == IF g.cloneof # None THEN g.cloneof ELSE i
          IN  IF skipped(g) \/ region_codes(g) = <<>>
              THEN \A e \in AllEntries : e.input_index # i
              ELSE /\ key \in DOMAIN parsed_games
                   /\ \A r \in Range(region_codes(g)) :
                         \E e \in Range(parsed_games[key]) :
                            e.input_index = i /\ e.region = r

\* A parent and its clone ended in one bucket.
C20_Witness ==
    /\ gpc = "parsed"
    /\ \E key \in DOMAIN parsed_games :
          /\ \E e \in Range(parsed_games[key]) : e.name = key /\ e.is_parent
          /\ \E e \in Range(parsed_games[key]) :
                e.name # key /\ GameOf(e).cloneof = key

\* ======================================================================
\* The command line: the option loop of main and the checks after it.
\* ======================================================================

\* Largest number of options on the command line.
MaxArgs == 3

\* The options of the model. "dat_url" is --dat=url:..., "output_new" is
\* --output-dir with a directory that does not exist yet, "threads_0" is
\* --threads=0 and "weight_0" is --language-weight=0.
Options ==
    {"regions", "dat_file", "dat_url", "input_dir", "output_new",
     "early_revisions", "input_order", "threads_0", "weight_0", "force",
     "no_scan"}

\* The command lines: lists of distinct options.
CommandLines ==
    {a \in SeqsUpTo(Options, MaxArgs) :
        \A j, k \in DOMAIN a : j # k => a[j] # a[k]}

\* The option variables before the loop.
Defaults ==
    [selected_regions |-> FALSE, dat_file |-> FALSE, input_dir |-> FALSE,
     output_dir |-> FALSE, revision_asc |-> FALSE, input_order |-> FALSE,
     THREADS |-> 4, force |-> FALSE, no_scan |-> FALSE]

InitConf ==
    /\ argv \in CommandLines
    /\ conf = Defaults
    /\ made_dirs = FALSE
    /\ fetched = {}
    /\ dat \in [has_cloneof : BOOLEAN, lacks_sha1 : BOOLEAN]
    /\ work_started = FALSE
    /\ indexed = FALSE
    /\ exit_status = -1
    /\ cpc = "options"
    /\ IdleIndex
    /\ IdlePad
    /\ IdleRank
    /\ IdleResolve
    /\ IdleParse
    /\ IdleSelect
    /\ IdleHash
    /\ IdleRegion

\* sys.exit(help_msg(...)): the message goes to stderr, the status is 1.
ExitWithError ==
    /\ cpc' = "exited"
    /\ exit_status' = 1

\* One pass of "for opt, arg in opts". A download can fail.
ReadOption ==
    /\ cpc = "options"
    /\ argv # <<>>
    /\ argv' = Tail(argv)
    /\ LET opt == Head(argv)
       IN  \E download_ok \in BOOLEAN :
           /\ opt # "dat_url" => download_ok
           /\ conf' =
                CASE opt = "regions" -> [conf EXCEPT !.selected_regions = TRUE]
                  [] opt = "dat_file" -> [conf EXCEPT !.dat_file = TRUE]
                  [] opt = "dat_url" -> [conf EXCEPT !.dat_file = download_ok]
                  [] opt = "input_dir" -> [conf EXCEPT !.input_dir = TRUE]
                  [] opt = "output_new" -> [conf EXCEPT !.output_dir = TRUE]
                  [] opt = "early_revisions" -> [conf EXCEPT !.revision_asc = TRUE]
                  [] opt = "input_order" -> [conf EXCEPT !.input_order = TRUE]
                  [] opt = "threads_0" -> [conf EXCEPT !.THREADS = 0]
                  [] opt = "force" -> [conf EXCEPT !.force = TRUE]
                  [] opt = "no_scan" -> [conf EXCEPT !.no_scan = TRUE]
                  [] OTHER -> conf
           /\ made_dirs' = (made_dirs \/ opt = "output_new")
           /\ fetched' = IF opt = "dat_url" /\ download_ok
                         THEN fetched \cup {opt} ELSE fetched
           /\ IF opt = "weight_0" \/ (opt = "dat_url" /\ ~download_ok)
              THEN ExitWithError
              ELSE UNCHANGED <<cpc, exit_status>>
    /\ UNCHANGED <<dat, work_started, indexed>>
    /\ UNCHANGED notConf

\* Declining a prompt: "Operation aborted", then sys.exit() without an
\* argument, which is exit status 0.
Abort ==
    /\ cpc' = "aborted"
    /\ exit_status' = 0

\* After the loop: without an input directory and without --no-scan the
\* user is warned and, unless --force is given, asked whether to go on.
EndOptions ==
    /\ cpc = "options"
    /\ argv = <<>>
    /\ \E answer \in {"y", "n"} :
          IF ~conf.no_scan /\ ~conf.input_dir /\ ~conf.force /\ answer = "n"
          THEN Abort
          ELSE cpc' = "checks" /\ UNCHANGED exit_status
    /\ UNCHANGED <<argv, conf, made_dirs, fetched, dat, work_started, indexed>>
    /\ UNCHANGED notConf

use_hashes(c) == ~c.no_scan /\ c.input_dir

\* The checks of main between the option loop and validate_dat.
invalid(c) ==
    \/ ~c.dat_file
    \/ ~c.selected_regions
    \/ (c.revision_asc /\ c.input_order)
    \/ (c.output_dir /\ ~c.input_dir)
    \/ c.THREADS <= 0

Checks ==
    /\ cpc = "checks"
    /\ IF invalid(conf) THEN ExitWithError
       ELSE cpc' = "gate" /\ UNCHANGED exit_status
    /\ UNCHANGED <<argv, conf, made_dirs, fetched, dat, work_started, indexed>>
    /\ UNCHANGED notConf

\* validate_dat: it opens the DAT file and asks for confirmation when ROMs
\* lack a digest in hash mode, and when no game has a clone-of reference.
sha1_gate(c) == use_hashes(c) /\ dat.lacks_sha1 /\ ~c.force

cloneof_gate(c) == ~dat.has_cloneof /\ ~c.force

ValidateDat ==
    /\ cpc = "gate"
    /\ work_started' = TRUE
    /\ \E sha1_answer, cloneof_answer \in {"y", "n"} :
          IF \/ sha1_gate(conf) /\ sha1_answer = "n"
             \/ cloneof_gate(conf) /\ cloneof_answer = "n"
          THEN Abort
          ELSE cpc' = "index" /\ UNCHANGED exit_status
    /\ UNCHANGED <<argv, conf, made_dirs, fetched, dat, indexed>>
    /\ UNCHANGED notConf

\* hash_index = index_files(input_dir, dat_file), in hash mode only.
IndexFiles ==
    /\ cpc = "index"
    /\ indexed' = use_hashes(conf)
    /\ cpc' = "resolve"
    /\ UNCHANGED <<argv, conf, made_dirs, fetched, dat, work_started, exit_status>>
    /\ UNCHANGED notConf

NextConf ==
    \/ ReadOption
    \/ EndOptions
    \/ Checks
    \/ ValidateDat
    \/ IndexFiles

SpecConf == InitConf /\ [][NextConf]_vars

\* ---- claims about the command line -----------------------------------

\* C12: when the configuration is invalid the run fails before any work:
\* at the moment the error is reported no output directory has been
\* created, nothing has been fetched, and no scanning, hashing or catalog
\* parsing has started.
C12_InvalidConfigFailsBeforeWork ==
    (cpc = "exited" /\ exit_status = 1)
        => /\ ~made_dirs
           /\ fetched = {}
           /\ ~work_started
           /\ ~indexed

\* C13: when the catalog has no clone-of relationship, or hashing is
\* requested and a ROM lacks a digest, and --force is not given, the run
\* stops at a confirmation gate before indexing; declining ends the run
\* with a non-zero exit status and nothing hashed; --force skips the gate.
C13_DeclinedGateExitsNonZero ==
    (cpc = "aborted" /\ work_started)
        => /\ exit_status # 0
           /\ ~indexed

\* ---- the inclusion filter and the choice of a candidate ---------------

\* Largest number of variants in the bucket.
MaxBucket == 2

\* Largest number of languages given with --languages.
MaxSelected == 4

\* Largest number of languages written in a name.
MaxTagLangs == 2

\* Largest number of deviations from the plain run: attributes of the
\* variants that differ from "Game (USA)" plus inclusion modes that are set.
MaxSelectDeviations == 3

\* Largest --language-weight.
MaxWeight == 3

\* The values of --language-weight: positive integers.
Weights == 1..MaxWeight

\* The deviations of a run whose language weight varies.
MaxWeightDeviations == 3

\* The languages of the command line, most preferred first.
LanguagePool == <<"en", "fr", "de", "ja">>

\* The language lists a name can carry, as "(Fr,De)".
LanguageTags ==
    {l \in SeqsUpTo(1..Len(LanguagePool), MaxTagLangs) :
        l # <<>> /\ \A j \in 1..(Len(l) - 1) : l[j] < l[j + 1]}

tag_languages(tag) == List([j \in DOMAIN tag |-> LanguagePool[tag[j]]])

\* COUNTRY_REGION_CORRELATION: the languages of a region.
region_languages(region) == IF region = "JPN" THEN <<"ja">> ELSE <<"en">>

\* The variants of the bucket: region, bad dump, languages of the name.
SelectKinds ==
    [region : {"USA", "EUR", "JPN"}, is_bad : BOOLEAN,
     tag : {<<>>} \cup {tag_languages(t) : t \in LanguageTags}]

kind_deviations(k) ==
    Bit(k.region # "USA") + Bit(k.is_bad) + Bit(k.tag # <<>>)

\* The inclusion modes that pass the check of main.
ModeSets ==
    {m \in [all_regions : BOOLEAN, all_regions_with_lang : BOOLEAN,
            only_selected_lang : BOOLEAN] :
        ~(m.all_regions /\ m.all_regions_with_lang)}

mode_deviations(m) ==
    Bit(m.all_regions) + Bit(m.all_regions_with_lang) + Bit(m.only_selected_lang)

\* The buckets of n variants with at most 'budget' deviations in all.
RECURSIVE SelectBuckets(_, _)
SelectBuckets(n, budget) ==
    IF n = 0 THEN {<<>>}
    ELSE UNION {{<<k>> \o rest : rest \in SelectBuckets(n - 1, budget - kind_deviations(k))} :
                k \in {x \in SelectKinds : kind_deviations(x) <= budget}}

\* languages = parse_languages(game.name), else get_languages(region_data)
languages_of(k) == IF k.tag # <<>> THEN k.tag ELSE region_languages(k.region)

\* reversed(arg.split(','))
reversed(ls) == List([j \in DOMAIN ls |-> ls[Len(ls) + 1 - j]])

InitSelect ==
    /\ \E m \in ModeSets : \E n \in 1..MaxBucket :
       \E ks \in SelectBuckets(n, MaxSelectDeviations - mode_deviations(m)) :
          /\ modes = m
          /\ games = [i \in 1..n |->
                GameEntry([PlainRelease EXCEPT !.region = ks[i].region,
                                               !.is_bad = ks[i].is_bad,
                                               !.languages = languages_of(ks[i])], i)]
          /\ explicit = [i \in 1..n |-> ks[i].tag]
          /\ located \in SUBSET (1..n)
    /\ \E k \in 0..Min(MaxSelected, Len(LanguagePool)) :
          cfg = [ConfigOf({}) EXCEPT
                    !.selected_languages = reversed(SubSeq(LanguagePool, 1, k))]
    /\ filtered = <<>>
    /\ chosen = 0
    /\ rpc = "parsed"
    /\ IdleIndex
    /\ IdlePad
    /\ IdleResolve
    /\ IdleParse
    /\ IdleConf
    /\ IdleHash
    /\ IdleRegion

parse_languages(name) == explicit[name]

\* include_candidate(x) of main.
include_candidate(x) ==
    LET explicit_langs == parse_languages(x.name)
        selected(lang) == lang \in Range(cfg.selected_languages)
    IN  IF /\ modes.all_regions_with_lang
           /\ explicit_langs # <<>>
           /\ ~\E j \in DOMAIN explicit_langs : selected(explicit_langs[j])
        THEN FALSE
        ELSE IF modes.all_regions_with_lang /\ explicit_langs = <<>>
        THEN x.score.languages < 0
        ELSE IF modes.only_selected_lang /\ x.score.languages >= 0 THEN FALSE
        ELSE IF modes.all_regions_with_lang /\ x.score.languages < 0 THEN TRUE
        ELSE IF modes.all_regions THEN TRUE
        ELSE x.score.region # UNSELECTED

\* [x for x in entries if include_candidate(x)]
RECURSIVE filter_entries(_)
filter_entries(gs) ==
    IF gs = <<>> THEN <<>>
    ELSE IF include_candidate(Head(gs)) THEN <<Head(gs)>> \o filter_entries(Tail(gs))
    ELSE filter_entries(Tail(gs))

\* The filter is applied unless --all-regions is given.
FilterBucket ==
    /\ rpc = "ranked"
    /\ filtered' = IF ~modes.all_regions THEN filter_entries(games) ELSE games
    /\ rpc' = "filtered"
    /\ UNCHANGED <<games, cfg, modes, explicit, located, chosen>>
    /\ UNCHANGED notSelect

\* The first candidate, in order, whose files are located.
RECURSIVE first_located(_)
first_located(es) ==
    IF es = <<>> THEN 0
    ELSE IF Head(es).name \in located THEN Head(es).name
    ELSE first_located(Tail(es))

\* The candidate loop: it stops at the first candidate that is located.
WalkBucket ==
    /\ rpc = "filtered"
    /\ chosen' = first_located(filtered)
    /\ rpc' = "walked"
    /\ UNCHANGED <<games, cfg, modes, explicit, located, filtered>>
    /\ UNCHANGED notSelect

NextSelect ==
    \/ Rank
    \/ FilterBucket
    \/ WalkBucket

SpecSelect == InitSelect /\ [][NextSelect]_vars

\* The same run under every language weight.
\* A deviation is a further variant, a variant that is not located, a
\* mode that is set, or an attribute of a variant that differs from
\* "Game (USA)".
InitWeight ==
    /\ \E m \in ModeSets : \E n \in 1..MaxBucket : \E w \in Weights :
       \E missing \in SUBSET (1..n) :
       \E ks \in SelectBuckets(n, MaxWeightDeviations - mode_deviations(m)
                                    - (n - 1) - Cardinality(missing)) :
       \E k \in 0..Min(MaxSelected, Len(LanguagePool)) :
          /\ modes = m
          /\ games = [i \in 1..n |->
                GameEntry([PlainRelease EXCEPT !.region = ks[i].region,
                                               !.is_bad = ks[i].is_bad,
                                               !.languages = languages_of(ks[i])], i)]
          /\ explicit = [i \in 1..n |-> ks[i].tag]
          /\ located = (1..n) \ missing
          /\ cfg = [ConfigOf({}) EXCEPT
                    !.selected_languages = reversed(SubSeq(LanguagePool, 1, k)),
                    !.language_weight = w]
    /\ filtered = <<>>
    /\ chosen = 0
    /\ rpc = "parsed"
    /\ IdleIndex
    /\ IdlePad
    /\ IdleResolve
    /\ IdleParse
    /\ IdleConf
    /\ IdleHash
    /\ IdleRegion

SpecWeight == InitWeight /\ [][NextSelect]_vars

\* ---- claims about the inclusion modes and the language score ----------

\* The variant of the bucket with the given name.
Variant(name) == CHOOSE g \in Range(games) : g.name = name

\* The bucket with the language score each variant has under the weight.
Reweighed(gs, weight) ==
    List([i \in DOMAIN gs |->
            [gs[i] EXCEPT !.score.languages = languages_score(gs[i], weight)]])

\* The candidates of the ranked bucket gs after the inclusion filter.
Candidates(gs) == IF ~modes.all_regions THEN filter_entries(gs) ELSE gs

\* C29: the ranked order of a bucket, the set of included candidates and
\* the chosen candidate are the same for every positive language weight:
\* under each weight they are what they are under the default weight.
C29_WeightDoesNotMatter ==
    /\ [][(rpc = "parsed" /\ rpc' = "ranked") =>
            NameOrder(games') =
                NameOrder(sort(Reweighed(set_scores(pad_all(games)),
                                         language_weight)))]_vars
    /\ [](rpc \in {"filtered", "walked"} =>
            NameOrder(filtered) =
                NameOrder(Candidates(Reweighed(games, language_weight))))
    /\ [](rpc = "walked" =>
            chosen = first_located(Candidates(Reweighed(games, language_weight))))

\* A run with a weight other than the default in which the language score
\* decided the order of the bucket and the filter dropped a variant.
C29_Witness ==
    /\ rpc = "walked"
    /\ cfg.language_weight # language_weight
    /\ Len(games) = 2
    /\ games[1].name = 2
    /\ games[1].score.languages < 0
    /\ games[2].score.languages = 0
    /\ modes.only_selected_lang
    /\ Len(filtered) = 1
    /\ chosen # 0

\* C14: in all-regions mode a variant of an unselected region is chosen
\* for a bucket only if no variant of a selected region in that bucket can
\* be located.
C14_UnselectedRegionIsFallback ==
    (/\ rpc = "walked"
     /\ modes.all_regions
     /\ chosen # 0
     /\ Variant(chosen).region \notin Range(selected_regions))
        => ~\E g \in Range(games) :
               g.region \in Range(selected_regions) /\ g.name \in located

\* C15: with --only-selected-lang every candidate the resolver walks has a
\* strictly negative language score, in each region inclusion mode.
C15_WalkedCandidatesMatchLanguage ==
    (rpc \in {"filtered", "walked"} /\ modes.only_selected_lang)
        => \A j \in DOMAIN filtered : filtered[j].score.languages < 0

\* Position of a language in the list as given (1 = most preferred), 0 if
\* it is not selected.
ListedAt(lang) ==
    LET given == reversed(cfg.selected_languages)
    IN  IF lang \in Range(given)
        THEN CHOOSE j \in DOMAIN given : given[j] = lang
        ELSE 0

\* C19: a variant that supports an earlier-listed selected language never
\* has a worse (greater) language score than a variant whose selected
\* languages are all listed later.
C19_EarlierLanguageDominates ==
    rpc # "parsed" =>
        \A a, b \in Range(games) :
            (\E la \in Range(a.languages) :
                /\ ListedAt(la) > 0
                /\ \A lb \in Range(b.languages) :
                      ListedAt(lb) = 0 \/ ListedAt(lb) > ListedAt(la))
                => a.score.languages <= b.score.languages

\* ======================================================================
\* compute_hash: the digest of a file or of an archive member.
\* ======================================================================

\* Largest number of bytes of the input.
MaxBytes == 3

\* Largest number of header rules.
MaxRules == 2

\* Largest chunk size given with --chunk-size.
MaxChunk == 2

Bytes == {0, 1}

\* A header rule: test is "the input starts with the byte 'magic'", apply
\* removes the first 'skip' bytes.
RuleKinds == [magic : Bytes, skip : {1, 2}]

test(rule, file_bytes) == file_bytes # <<>> /\ file_bytes[1] = rule.magic

apply(rule, file_bytes) ==
    IF Len(file_bytes) <= rule.skip THEN <<>>
    ELSE SubSeq(file_bytes, rule.skip + 1, Len(file_bytes))

\* hashlib.sha1 as a collision-free function of the bytes fed to it.
sha1(data) == <<"sha1", data>>

\* `for rule in RULES`, from rule k on.
RECURSIVE apply_rules(_, _, _)
apply_rules(rules, k, file_bytes) ==
    IF k > Len(rules) THEN file_bytes
    ELSE apply_rules(rules, k + 1,
                     IF test(rules[k], file_bytes) THEN apply(rules[k], file_bytes)
                     ELSE file_bytes)

\* internal_file.read(n) at offset pos: everything that is left for a
\* negative n, at most n bytes otherwise.
read(data, pos, n) ==
    IF n < 0 THEN SubSeq(data, pos + 1, Len(data))
    ELSE SubSeq(data, pos + 1, Min(pos + n, Len(data)))

\* The `while True` loop: what the hasher was fed when it ends.
RECURSIVE stream(_, _, _, _)
stream(data, pos, n, fed) ==
    LET chunk == read(data, pos, n)
    IN  IF chunk = <<>> THEN fed
        ELSE stream(data, pos + Len(chunk), n, fed \o chunk)

compute_hash(in) ==
    IF in.RULES # <<>> /\ Len(in.bytes) <= in.MAX_FILE_SIZE
    THEN sha1(apply_rules(in.RULES, 1, in.bytes))
    ELSE sha1(stream(in.bytes, 0, in.CHUNK_SIZE, <<>>))

\* --chunk-size takes any integer; MAX_FILE_SIZE is checked to be positive.
InitHash ==
    /\ hash_in \in [bytes : SeqsUpTo(Bytes, MaxBytes),
                    RULES : SeqsUpTo(RuleKinds, MaxRules),
                    MAX_FILE_SIZE : 1..MaxBytes,
                    CHUNK_SIZE : (-1)..MaxChunk]
    /\ hexdigest = <<>>
    /\ hpc = "input"
    /\ IdleIndex
    /\ IdlePad
    /\ IdleRank
    /\ IdleResolve
    /\ IdleParse
    /\ IdleConf
    /\ IdleSelect
    /\ IdleRegion

ComputeHash ==
    /\ hpc = "input"
    /\ hexdigest' = compute_hash(hash_in)
    /\ hpc' = "hashed"
    /\ UNCHANGED hash_in
    /\ UNCHANGED notHash

NextHash == ComputeHash

SpecHash == InitHash /\ [][NextHash]_vars

\* ---- claims about compute_hash ----------------------------------------

\* The input after every matching rule, in declared order, each one tested
\* on the output of those before it.
RECURSIVE Normalised(_, _)
Normalised(rules, data) ==
    IF rules = <<>> THEN data
    ELSE Normalised(Tail(rules),
                    IF data # <<>> /\ data[1] = Head(rules).magic
                    THEN SubSeq(data, Min(Head(rules).skip, Len(data)) + 1, Len(data))
                    ELSE data)

\* C23: compute_hash returns the SHA-1 of the input after the matching
\* rules, in order, when rules are loaded and the size is at most the
\* maximum (boundary included), and the SHA-1 of the whole unmodified input
\* otherwise, whatever the chunk size.
C23_DigestOfNormalisedOrWholeInput ==
    hpc = "hashed" =>
        hexdigest =
            IF hash_in.RULES # <<>> /\ Len(hash_in.bytes) <= hash_in.MAX_FILE_SIZE
            THEN <<"sha1", Normalised(hash_in.RULES, hash_in.bytes)>>
            ELSE <<"sha1", hash_in.bytes>>

\* ======================================================================
\* get_region_data: the region table grows with unrecognized codes.
\* ======================================================================

\* Largest number of calls of get_region_data.
MaxRegionCalls == 3

\* The codes the release elements of a catalog give.
ReleaseCodes == {"USA", "usa", "Usa", "XX", "xx", "Xx", "YY", "yy"}

\* COUNTRY_REGION_CORRELATION as the module defines it.
InitialTable ==
    <<[code |-> "EUR", pattern |-> TRUE, languages |-> <<"en">>],
      [code |-> "JPN", pattern |-> TRUE, languages |-> <<"ja">>],
      [code |-> "USA", pattern |-> TRUE, languages |-> <<"en">>]>>

\* The loop over the table: the index of the first entry with the code, 0
\* if there is none.
RECURSIVE find_region(_, _, _)
find_region(table, code, k) ==
    IF k > Len(table) THEN 0
    ELSE IF table[k].code = code THEN k
    ELSE find_region(table, code, k + 1)

InitRegion ==
    /\ region_table = InitialTable
    /\ region_log = <<>>
    /\ region_calls = <<>>
    /\ IdleIndex
    /\ IdlePad
    /\ IdleRank
    /\ IdleResolve
    /\ IdleParse
    /\ IdleConf
    /\ IdleSelect
    /\ IdleHash

\* get_region_data(given) with a recognized code.
KnownRegion(given) ==
    /\ Len(region_calls) < MaxRegionCalls
    /\ LET code == upper(given)
           found == find_region(region_table, code, 1)
       IN  /\ found # 0
           /\ region_calls' = Append(region_calls,
                                     [code |-> given, entry |-> region_table[found]])
    /\ UNCHANGED <<region_table, region_log>>
    /\ UNCHANGED notRegion

\* get_region_data(given) with an unrecognized code: it is logged and a
\* new entry is appended.
NewRegion(given) ==
    /\ Len(region_calls) < MaxRegionCalls
    /\ LET code == upper(given)
           region_data == [code |-> code, pattern |-> FALSE, languages |-> <<>>]
       IN  /\ find_region(region_table, code, 1) = 0
           /\ region_log' = Append(region_log, code)
           /\ region_table' = Append(region_table, region_data)
           /\ region_calls' = Append(region_calls,
                                     [code |-> given, entry |-> region_data])
    /\ UNCHANGED notRegion

NextRegion ==
    \/ \E given \in ReleaseCodes : KnownRegion(given)
    \/ \E given \in ReleaseCodes : NewRegion(given)

SpecRegion == InitRegion /\ [][NextRegion]_vars

\* ---- claims about the region table ------------------------------------

\* The codes that differ in letter case only.
CaseClasses == {{"USA", "usa", "Usa"}, {"XX", "xx", "Xx"}, {"YY", "yy"}}

SameCode(a, b) == \E c \in CaseClasses : a \in c /\ b \in c

\* C24: the codes of the region table are pairwise distinct; the first
\* call with an unrecognized code appends one entry without pattern and
\* languages and logs once, and every later call with that code, in any
\* letter case, returns that entry without growing the table or logging.
C24_RegionCodesUnique ==
    /\ \A j, k \in DOMAIN region_table :
          j # k => region_table[j].code # region_table[k].code
    /\ \A j, k \in DOMAIN region_calls :
          SameCode(region_calls[j].code, region_calls[k].code)
              => region_calls[j].entry = region_calls[k].entry
    /\ \A j \in DOMAIN region_calls :
          /\ \E k \in DOMAIN region_table : region_table[k] = region_calls[j].entry
          /\ SameCode(region_calls[j].code, region_calls[j].entry.code)
    /\ LET unknown == {c \in CaseClasses :
                          /\ "USA" \notin c
                          /\ \E j \in DOMAIN region_calls : region_calls[j].code \in c}
       IN  /\ Len(region_table) = Len(InitialTable) + Cardinality(unknown)
           /\ Len(region_log) = Cardinality(unknown)
           /\ \A k \in (Len(InitialTable) + 1)..Len(region_table) :
                 /\ ~region_table[k].pattern
                 /\ region_table[k].languages = <<>>

\* An unrecognized code was met twice, in two letter cases, and once more.
C24_Witness ==
    /\ Len(region_calls) = 3
    /\ region_calls[1].code = "xx"
    /\ region_calls[2].code = "XX"
    /\ region_calls[3].code = "Xx"
    /\ Len(region_table) = Len(InitialTable) + 1
    /\ Len(region_log) = 1

====
